---- MODULE Spec2Model ----
(***************************************************************************)
(* A model of the new group chats of toxcore (toxcore/group_chats.c).      *)
(*                                                                         *)
(* Part I   lossless transport of one directed pair of peers, A -> B:      *)
(*          A's send window and B's receive window of a GC_Connection,     *)
(*          the datagrams and the MESSAGE_ACK packets in flight.           *)
(* Part II  the group: the chats of a founder F and of a second peer J,    *)
(*          their peer tables, the lossless packets between them (handed   *)
(*          over in order, once each) and the lossy packets in flight.     *)
(*                                                                         *)
(* The window bookkeeping of toxcore/group_connection.c (the gcc_ calls) is  *)
(* not part of the sources at hand; it is modelled from section 4.2 of    *)
(* the specification and from the way group_chats.c calls it.              *)
(***************************************************************************)
EXTENDS Integers, Sequences, FiniteSets, TLC

(***************************************************************************)
(* Bounds of the model.                                                    *)
(***************************************************************************)
\* lossless packets A sends during one behaviour
MaxSend == 2

\* lossless packets A sends after a handshake whose RESPONSE is replayed
MaxStreamSend == 2

\* copies of the handshake RESPONSE datagram the network still holds
MaxHsCopies == 2

\* lossless packets A sends in the behaviours checked for progress
MaxLiveSend == 1

(***************************************************************************)
(* Program constants.                                                      *)
(***************************************************************************)
\* size of the send and receive windows of a connection
GCC_BUFFER_SIZE == 64

\* message ids already exchanged when the behaviour starts (4: the ids
\* 5, 6, 7 of the reordering example; 62: the ids 63, 64, 65 wrap around
\* the window index)
BaseIds == {4, 62}

VARIABLES
    \* ---- A's GC_Connection of B ----
    a_peer,            \* B is in A's peer table
    send_message_id,   \* gconn->send_message_id
    send_ary,          \* gconn->send_ary
    \* ---- B's GC_Connection of A ----
    b_peer,            \* A is in B's peer table
    handshaked,        \* gconn->handshaked
    recv_message_id,   \* gconn->recv_message_id
    recv_ary,          \* gconn->recv_ary
    \* ---- the network ----
    wire,              \* lossless datagrams A -> B in flight
    ackwire,           \* MESSAGE_ACK packets B -> A in flight
    hs_wire,           \* a handshake RESPONSE datagram A -> B in flight
    \* ---- observation ----
    sent,              \* message ids A has sent, in order
    handled,           \* message ids handed to handle_gc_lossless_helper at B
    lost,              \* the network dropped a datagram B had not handled yet
    last_ret,          \* gcc_handle_recv_message's result in B's last receive
    to_send,           \* lossless packets A has yet to send
    \* ---- the group ----
    chat,              \* GC_Chat of each node
    peers,             \* peer table of each node: group[] and gcc[] by key
    chan,              \* lossless packets in flight, per directed pair
    lossy,             \* lossy packets in flight
    cb,                \* callbacks fired at each node, in order
    ops,               \* API calls and environment events still to come
    \* ---- one chat seen through its API ----
    group,             \* chat->group[] with the key of gcc[]: the peer table
    ret,               \* return value of the last call or handler
    gc,                \* the GC_Chat fields the calls read and write
    call,              \* the last call or packet handled, with its arguments
    \* ---- the announce store ----
    announces,         \* gc_announces_list->announces: the buckets, head first
    gc_announces,      \* the array get_gc_announces fills for its caller
    unix_time,         \* unix_time(), in seconds
    \* ---- packed records ----
    packed             \* the bytes a pack function writes and an unpack function reads

tvars == <<a_peer, send_message_id, send_ary, b_peer, handshaked,
           recv_message_id, recv_ary, wire, ackwire, hs_wire,
           sent, handled, lost, last_ret, to_send>>

gvars == <<chat, peers, chan, lossy, cb, ops>>

avars == <<group, ret, gc, call, announces, gc_announces, unix_time,
          packed>>

vars == <<tvars, gvars, avars>>

\* The variables of the single-chat specifications, out of use.
ApiIdle ==
    /\ group = <<>>
    /\ ret = 0
    /\ gc = <<>>
    /\ call = <<>>
    /\ announces = <<>>
    /\ gc_announces = <<>>
    /\ unix_time = 0
    /\ packed = <<>>

Slots == 0 .. (GCC_BUFFER_SIZE - 1)

\* an unused slot of send_ary
EmptySend == [message_id |-> 0, packet_type |-> "NONE",
              tried_now |-> FALSE, added_now |-> FALSE]

\* an unused slot of recv_ary
EmptyRecv == [message_id |-> 0, packet_type |-> "NONE"]

get_ary_index(message_id) == message_id % GCC_BUFFER_SIZE

\* send_ary and recv_ary are kept as the function of their used slots:
\* a slot outside the domain is an unused slot of the array.
SendSlot(ary, i) == IF i \in DOMAIN ary THEN ary[i] ELSE EmptySend

RecvSlot(ary, i) == IF i \in DOMAIN ary THEN ary[i] ELSE EmptyRecv

PutSlot(ary, i, e) ==
    [j \in (DOMAIN ary) \cup {i} |-> IF j = i THEN e ELSE ary[j]]

ClearSlot(ary, i) == [j \in (DOMAIN ary) \ {i} |-> ary[j]]

EmptyAry == [j \in {} |-> EmptyRecv]

IsPrefix(s, t) == /\ Len(s) <= Len(t)
                  /\ \A i \in 1 .. Len(s) : s[i] = t[i]

SeqToSet(s) == {s[i] : i \in 1 .. Len(s)}

(***************************************************************************)
(* Part I.  Window bookkeeping (group_connection.c, from the spec).        *)
(***************************************************************************)

\* Classifies an arriving message id against the receive cursor:
\*   0  duplicate (message_id <= recv_message_id)
\*   2  the next expected id: the cursor advances
\*   1  ahead of the cursor and inside the window: stored in recv_ary
\*  -1  outside the window: dropped
gcc_handle_recv_message(rid, ary, d) ==
    IF d.message_id <= rid
    THEN [ret |-> 0, recv_message_id |-> rid, recv_ary |-> ary]
    ELSE IF d.message_id = rid + 1
    THEN [ret |-> 2, recv_message_id |-> rid + 1, recv_ary |-> ary]
    ELSE IF d.message_id <= rid + GCC_BUFFER_SIZE
    THEN [ret |-> 1, recv_message_id |-> rid,
          recv_ary |-> PutSlot(ary, get_ary_index(d.message_id),
                               [message_id |-> d.message_id,
                                packet_type |-> d.packet_type])]
    ELSE [ret |-> -1, recv_message_id |-> rid, recv_ary |-> ary]

\* Hands the buffered packets that directly follow the cursor to the
\* handlers, in order, and advances the cursor over them.
RECURSIVE gcc_check_recv_ary(_, _, _)
gcc_check_recv_ary(rid, ary, hd) ==
    IF RecvSlot(ary, get_ary_index(rid + 1)).message_id = rid + 1
    THEN gcc_check_recv_ary(rid + 1,
                            ClearSlot(ary, get_ary_index(rid + 1)),
                            Append(hd, rid + 1))
    ELSE [recv_message_id |-> rid, recv_ary |-> ary, handled |-> hd]

\* Stores an outbound packet in the slot of its id; fails when the slot
\* still holds an unacknowledged packet.
gcc_add_send_ary(ary, mid, pt) ==
    IF SendSlot(ary, get_ary_index(mid)).message_id # 0
    THEN [ok |-> FALSE, send_ary |-> ary, send_message_id |-> mid]
    ELSE [ok |-> TRUE,
          send_ary |-> PutSlot(ary, get_ary_index(mid),
                               [message_id |-> mid, packet_type |-> pt,
                                tried_now |-> TRUE, added_now |-> TRUE]),
          send_message_id |-> mid + 1]

\* A read receipt removes the packet from the send window.
gcc_handle_ack(ary, read_id) ==
    IF SendSlot(ary, get_ary_index(read_id)).message_id = read_id
    THEN ClearSlot(ary, get_ary_index(read_id))
    ELSE ary

\* The slots whose last send try is older than the current time.
ResendSlots(ary) ==
    {i \in DOMAIN ary : ~ary[i].tried_now}

\* Retransmits every packet of the window whose last send try is older
\* than the current time.
gcc_resend_packets(ary) ==
    [send_ary |-> [i \in DOMAIN ary |->
                      IF i \in ResendSlots(ary)
                      THEN [ary[i] EXCEPT !.tried_now = TRUE]
                      ELSE ary[i]],
     out |-> {[message_id |-> ary[i].message_id,
               packet_type |-> ary[i].packet_type] : i \in ResendSlots(ary)}]

(***************************************************************************)
(* Part I.  Packet handling (group_chats.c).                               *)
(***************************************************************************)

VALID_GC_MESSAGE_ACK(a, b) == (a = 0) \/ (b = 0)

\* The MESSAGE_ACK packets a call of gc_send_message_ack puts on the
\* network: a lossy packet, sent only over a handshaked connection.
gc_send_message_ack(hs, read_id, request_id) ==
    IF VALID_GC_MESSAGE_ACK(read_id, request_id) /\ hs
    THEN {[read_id |-> read_id, request_id |-> request_id]}
    ELSE {}

\* What the handler of a packet makes of it: it succeeds, it fails, or it
\* removes the sender from the peer table (whatever it returns then).
HandlerOutcomes == {"ok", "fail", "deleted"}

\* handle_gc_lossless_message with the duplicate branch missing: a packet
\* the cursor has passed goes to its handler again.
handle_gc_lossless_message_DupHandled(hs, rid, ary, hd, d, h) ==
    LET r == gcc_handle_recv_message(rid, ary, d)
        same == [ret |-> r.ret, recv_message_id |-> rid, recv_ary |-> ary,
                 handled |-> hd, acks |-> {}, peer |-> TRUE]
    IN
    IF d.packet_type # "GP_HS_RESPONSE_ACK" /\ ~hs
    THEN [same EXCEPT !.ret = -1]
    ELSE IF r.ret = -1
    THEN same
    ELSE IF r.ret = 1
    THEN [same EXCEPT !.recv_ary = r.recv_ary,
                      !.acks = gc_send_message_ack(hs, 0, r.recv_message_id + 1)]
    ELSE IF h \in {"fail", "deleted"}
    THEN [ret |-> r.ret, recv_message_id |-> r.recv_message_id,
          recv_ary |-> r.recv_ary, handled |-> Append(hd, d.message_id),
          acks |-> {}, peer |-> (h = "fail")]
    ELSE LET c == gcc_check_recv_ary(r.recv_message_id, r.recv_ary,
                                     Append(hd, d.message_id))
         IN [ret |-> r.ret, recv_message_id |-> c.recv_message_id,
             recv_ary |-> c.recv_ary, handled |-> c.handled,
             acks |-> gc_send_message_ack(hs, d.message_id, 0),
             peer |-> TRUE]

\* handle_gc_lossless_message for datagram d and handler outcome h, on a
\* connection with the given handshaked flag, cursor, window and history.
handle_gc_lossless_message(hs, rid, ary, hd, d, h) ==
    LET r == gcc_handle_recv_message(rid, ary, d)
        same == [ret |-> r.ret, recv_message_id |-> rid, recv_ary |-> ary,
                 handled |-> hd, acks |-> {}, peer |-> TRUE]
    IN
    IF d.packet_type # "GP_HS_RESPONSE_ACK" /\ ~hs
    THEN [same EXCEPT !.ret = -1]
    ELSE IF r.ret = -1
    THEN same
    ELSE IF r.ret = 0
    THEN [same EXCEPT !.acks = gc_send_message_ack(hs, d.message_id, 0)]
    ELSE IF r.ret = 1
    THEN [same EXCEPT !.recv_ary = r.recv_ary,
                      !.acks = gc_send_message_ack(hs, 0, r.recv_message_id + 1)]
    ELSE IF h \in {"fail", "deleted"}
    THEN [ret |-> 2, recv_message_id |-> r.recv_message_id,
          recv_ary |-> r.recv_ary, handled |-> Append(hd, d.message_id),
          acks |-> {}, peer |-> (h = "fail")]
    ELSE LET c == gcc_check_recv_ary(r.recv_message_id, r.recv_ary,
                                     Append(hd, d.message_id))
         IN [ret |-> 2, recv_message_id |-> c.recv_message_id,
             recv_ary |-> c.recv_ary, handled |-> c.handled,
             acks |-> gc_send_message_ack(hs, d.message_id, 0),
             peer |-> TRUE]

\* handle_gc_message_ack without the read receipt branch: every
\* MESSAGE_ACK is taken for a request.
handle_gc_message_ack_NoReceipt(ary, a) ==
    IF ~VALID_GC_MESSAGE_ACK(a.read_id, a.request_id)
    THEN [send_ary |-> ary, out |-> {}]
    ELSE LET idx == get_ary_index(a.request_id)
             e == SendSlot(ary, idx)
         IN
         IF /\ e.message_id = a.request_id
            /\ idx \in DOMAIN ary
            /\ (~e.tried_now \/ e.added_now)
         THEN [send_ary |-> PutSlot(ary, idx, [e EXCEPT !.tried_now = TRUE]),
               out |-> {[message_id |-> e.message_id,
                         packet_type |-> e.packet_type]}]
         ELSE [send_ary |-> ary, out |-> {}]

\* handle_gc_message_ack for the MESSAGE_ACK a on a send window.
handle_gc_message_ack(ary, a) ==
    IF ~VALID_GC_MESSAGE_ACK(a.read_id, a.request_id)
    THEN [send_ary |-> ary, out |-> {}]
    ELSE IF a.read_id > 0
    THEN [send_ary |-> gcc_handle_ack(ary, a.read_id), out |-> {}]
    ELSE LET idx == get_ary_index(a.request_id)
             e == SendSlot(ary, idx)
         IN
         IF /\ e.message_id = a.request_id
            /\ idx \in DOMAIN ary
            /\ (~e.tried_now \/ e.added_now)
         THEN [send_ary |-> PutSlot(ary, idx, [e EXCEPT !.tried_now = TRUE]),
               out |-> {[message_id |-> e.message_id,
                         packet_type |-> e.packet_type]}]
         ELSE [send_ary |-> ary, out |-> {}]

(***************************************************************************)
(* Part I.  Actions of the directed pair A -> B.                           *)
(***************************************************************************)

Datagram(mid, pt) == [message_id |-> mid, packet_type |-> pt]

\* A: send_lossless_group_packet of a packet of type pt to B.
send_lossless_group_packet(pt) ==
    LET add == gcc_add_send_ary(send_ary, send_message_id, pt) IN
    /\ a_peer
    /\ to_send > 0
    /\ add.ok
    /\ to_send' = to_send - 1
    /\ send_ary' = add.send_ary
    /\ send_message_id' = add.send_message_id
    /\ wire' = wire \cup {Datagram(send_message_id, pt)}
    /\ sent' = Append(sent, send_message_id)
    /\ UNCHANGED <<a_peer, b_peer, handshaked, recv_message_id, recv_ary,
                   ackwire, hs_wire, handled, lost, last_ret>>
    /\ UNCHANGED <<gvars, avars>>

\* A: do_peer_connections for peer B: a peer that has timed out is
\* deleted, any other peer gets its unacknowledged packets again.
do_peer_connections ==
    /\ a_peer
    /\ \E peer_timed_out \in BOOLEAN :
          IF peer_timed_out
          THEN /\ a_peer' = FALSE
               /\ send_ary' = EmptyAry
               /\ wire' = wire
          ELSE LET r == gcc_resend_packets(send_ary) IN
               /\ r.out # {}
               /\ a_peer' = a_peer
               /\ send_ary' = r.send_ary
               /\ wire' = wire \cup r.out
    /\ UNCHANGED <<send_message_id, b_peer, handshaked, recv_message_id,
                   recv_ary, ackwire, hs_wire, sent, handled, lost,
                   last_ret, to_send>>
    /\ UNCHANGED <<gvars, avars>>

\* A: a MESSAGE_ACK of B arrives.
ReceiveAck(a) ==
    LET r == handle_gc_message_ack(send_ary, a) IN
    /\ a \in ackwire
    /\ a_peer
    /\ send_ary' = r.send_ary
    /\ wire' = wire \cup r.out
    /\ UNCHANGED <<a_peer, send_message_id, b_peer, handshaked,
                   recv_message_id, recv_ary, ackwire, hs_wire, sent,
                   handled, lost, last_ret, to_send>>
    /\ UNCHANGED <<gvars, avars>>

\* B: a lossless datagram of A arrives and is taken in (a datagram that
\* handle_gc_lossless_message returns early on changes nothing).
ReceiveLossless(d) ==
    /\ d \in wire
    /\ b_peer
    /\ \E h \in HandlerOutcomes :
          LET r == handle_gc_lossless_message(handshaked, recv_message_id,
                                              recv_ary, handled, d, h)
          IN /\ r.ret # -1
             /\ (r.ret # 2 => h = "ok")
             /\ recv_message_id' = r.recv_message_id
             /\ recv_ary' = r.recv_ary
             /\ handled' = r.handled
             /\ ackwire' = ackwire \cup r.acks
             /\ b_peer' = r.peer
             /\ last_ret' = r.ret
    /\ UNCHANGED <<a_peer, send_message_id, send_ary, handshaked, wire,
                   hs_wire, sent, lost, to_send>>
    /\ UNCHANGED <<gvars, avars>>

\* The clock reaches the next second: no send try is of the current time.
TimePasses ==
    /\ \E i \in DOMAIN send_ary :
          send_ary[i].tried_now \/ send_ary[i].added_now
    /\ send_ary' = [i \in DOMAIN send_ary |->
                       [send_ary[i] EXCEPT !.tried_now = FALSE,
                                           !.added_now = FALSE]]
    /\ UNCHANGED <<a_peer, send_message_id, b_peer, handshaked,
                   recv_message_id, recv_ary, wire, ackwire, hs_wire, sent,
                   handled, lost, last_ret, to_send>>
    /\ UNCHANGED <<gvars, avars>>

\* The network drops a datagram.
LoseDatagram(d) ==
    /\ d \in wire
    /\ wire' = wire \ {d}
    /\ lost' = (lost \/ d.message_id \notin SeqToSet(handled))
    /\ UNCHANGED <<a_peer, send_message_id, send_ary, b_peer, handshaked,
                   recv_message_id, recv_ary, ackwire, hs_wire, sent,
                   handled, last_ret, to_send>>
    /\ UNCHANGED <<gvars, avars>>

\* The network drops a MESSAGE_ACK.
LoseAck(a) ==
    /\ a \in ackwire
    /\ ackwire' = ackwire \ {a}
    /\ UNCHANGED <<a_peer, send_message_id, send_ary, b_peer, handshaked,
                   recv_message_id, recv_ary, wire, hs_wire, sent, handled,
                   lost, last_ret, to_send>>
    /\ UNCHANGED <<gvars, avars>>

\* A connection on which base message ids have been exchanged and
\* acknowledged and no lossless packet is in flight.
Established(base) ==
    /\ send_message_id = base + 1
    /\ recv_message_id = base
    /\ a_peer = TRUE
    /\ b_peer = TRUE
    /\ handshaked = TRUE
    /\ send_ary = EmptyAry
    /\ recv_ary = EmptyAry
    /\ wire = {}
    /\ ackwire = {}
    /\ sent = <<>>
    /\ handled = <<>>
    /\ lost = FALSE
    /\ last_ret = -2
    /\ chat = <<>>
    /\ peers = <<>>
    /\ chan = <<>>
    /\ lossy = {}
    /\ cb = <<>>
    /\ ops = 0
    /\ ApiIdle

\* An established connection: the handshake is over and its datagrams
\* have left the network.
TransportInit ==
    /\ \E base \in BaseIds : Established(base)
    /\ hs_wire = 0
    /\ to_send = MaxSend

TransportNext ==
    \/ send_lossless_group_packet("GP_BROADCAST")
    \/ do_peer_connections
    \/ \E a \in ackwire : ReceiveAck(a)
    \/ \E d \in wire : ReceiveLossless(d)
    \/ TimePasses
    \/ \E d \in wire : LoseDatagram(d)
    \/ \E a \in ackwire : LoseAck(a)

SpecTransport == TransportInit /\ [][TransportNext]_vars

Init == TransportInit

Next == TransportNext

Spec == Init /\ [][Next]_vars

(***************************************************************************)
(* Part I.  The stream right after the handshake.                          *)
(*                                                                         *)
(* B has sent the handshake REQUEST, A has answered with the RESPONSE      *)
(* (send_pending_handshake: send_message_id 1 -> 2), B has handled the     *)
(* RESPONSE (recv_message_id 0 -> 1) and A has handled B's                 *)
(* HS_RESPONSE_ACK.  The network still holds copies of the RESPONSE        *)
(* datagram.                                                               *)
(***************************************************************************)

\* B: handle_gc_handshake_response for a RESPONSE datagram of A.  The
\* HS_RESPONSE_ACK and the request that B sends back travel B -> A.
handle_gc_handshake_response ==
    /\ hs_wire > 0
    /\ b_peer
    /\ hs_wire' = hs_wire - 1
    /\ recv_message_id' = recv_message_id + 1
    /\ handshaked' = TRUE
    /\ UNCHANGED <<a_peer, send_message_id, send_ary, b_peer, recv_ary,
                   wire, ackwire, sent, handled, lost, last_ret, to_send>>
    /\ UNCHANGED <<gvars, avars>>

\* The network drops a copy of the handshake RESPONSE.
LoseHandshake ==
    /\ hs_wire > 0
    /\ hs_wire' = hs_wire - 1
    /\ UNCHANGED <<a_peer, send_message_id, send_ary, b_peer, handshaked,
                   recv_message_id, recv_ary, wire, ackwire, sent, handled,
                   lost, last_ret, to_send>>
    /\ UNCHANGED <<gvars, avars>>

StreamInit ==
    /\ Established(1)
    /\ hs_wire \in 1 .. MaxHsCopies
    /\ to_send = MaxStreamSend

StreamNext ==
    \/ TransportNext
    \/ handle_gc_handshake_response
    \/ LoseHandshake

SpecStream == StreamInit /\ [][StreamNext]_vars

(***************************************************************************)
(* Claims about the lossless transport.                                    *)
(***************************************************************************)

\* C1: the sequence of lossless packets handed to B's handlers is a prefix
\* of the sequence A sent on the connection: no gap, no duplicate, no
\* reordering, whatever the network loses, duplicates or reorders.
C1_HandledIsPrefixOfSent == IsPrefix(handled, sent)

\* The message ids B's handlers get in a step.
NewlyHandled == {handled'[i] : i \in (Len(handled) + 1) .. Len(handled')}

\* C5: a lossless packet whose message id is at most recv_message_id never
\* reaches a handler; receiving it changes nothing at the receiver, which
\* only answers with MESSAGE_ACK(read_id = message_id, request_id = 0).
C5_DuplicateOnlyAcked ==
    [][/\ IsPrefix(handled, handled')
       /\ \A id \in NewlyHandled : id > recv_message_id
       /\ \A d \in wire :
             (d.message_id <= recv_message_id /\ ReceiveLossless(d)) =>
                /\ handled' = handled
                /\ recv_message_id' = recv_message_id
                /\ recv_ary' = recv_ary
                /\ b_peer' = b_peer
                /\ ackwire' = ackwire \cup
                      {[read_id |-> d.message_id, request_id |-> 0]}]_vars

\* B has handled a packet, then got it again and answered the duplicate.
C5_Witness ==
    /\ last_ret = 0
    /\ Len(handled) = 1
    /\ recv_message_id = handled[1]
    /\ [read_id |-> handled[1], request_id |-> 0] \in ackwire

\* The buffered message ids that directly follow message id mid.
RECURSIVE BufferedAfter(_, _)
BufferedAfter(ary, mid) ==
    IF RecvSlot(ary, get_ary_index(mid + 1)).message_id = mid + 1
    THEN <<mid + 1>> \o BufferedAfter(ary, mid + 1)
    ELSE <<>>

\* C6: a packet with an id above recv_message_id + 1 inside the window is
\* buffered without being handled and answered with MESSAGE_ACK(read_id = 0,
\* request_id = recv_message_id + 1); when the missing id arrives, it and
\* all consecutively buffered packets are handled in increasing id order,
\* each exactly once.
C6_BufferThenDrain ==
    [][\A d \in wire :
          ReceiveLossless(d) =>
             /\ (/\ d.message_id > recv_message_id + 1
                 /\ d.message_id <= recv_message_id + GCC_BUFFER_SIZE)
                => /\ handled' = handled
                   /\ recv_message_id' = recv_message_id
                   /\ RecvSlot(recv_ary', get_ary_index(d.message_id)).message_id
                         = d.message_id
                   /\ ackwire' = ackwire \cup
                         {[read_id |-> 0,
                           request_id |-> recv_message_id + 1]}
             /\ (d.message_id = recv_message_id + 1)
                => /\ handled' = handled \o <<d.message_id>>
                                    \o BufferedAfter(recv_ary, d.message_id)
                   /\ recv_message_id' = d.message_id
                         + Len(BufferedAfter(recv_ary, d.message_id))]_vars

(***************************************************************************)
(* Part I.  The transport under the scheduling the code provides: do_gc    *)
(* runs do_peer_connections on every iteration, the clock advances, and a  *)
(* datagram or MESSAGE_ACK that is sent again and again gets through.      *)
(***************************************************************************)

\* message ids already exchanged (41: id 42 of the retransmission
\* example; 62: the window index wraps around)
LiveBases == {41, 62}

LiveIds == UNION {(base + 1) .. (base + MaxLiveSend) : base \in LiveBases}

LiveInit ==
    /\ \E base \in LiveBases : Established(base)
    /\ hs_wire = 0
    /\ to_send = MaxLiveSend

TransportFairness ==
    /\ WF_vars(do_peer_connections /\ a_peer')
    /\ WF_vars(TimePasses)
    /\ \A id \in LiveIds :
          /\ SF_vars(ReceiveLossless(Datagram(id, "GP_BROADCAST")))
          /\ SF_vars(ReceiveAck([read_id |-> id, request_id |-> 0]))

SpecTransportLive ==
    LiveInit /\ [][TransportNext]_vars /\ TransportFairness

\* A's send window holds the packet with this message id.
InSendAry(id) == SendSlot(send_ary, get_ary_index(id)).message_id = id

\* The number of times B's handlers got this message id.
TimesHandled(id) == Cardinality({i \in 1 .. Len(handled) : handled[i] = id})

\* C7: a packet whose transmission was dropped is sent again by
\* do_peer_connections on a later tick while the peer is alive; when a
\* transmission and its acknowledgement get through, the receiver has
\* handled the packet exactly once and the sender's slot (id mod 64) is
\* cleared.
C7_RetransmitUntilAcked ==
    /\ [][(do_peer_connections /\ a_peer') =>
             \A i \in DOMAIN send_ary :
                ~send_ary[i].tried_now =>
                   Datagram(send_ary[i].message_id, send_ary[i].packet_type)
                      \in wire']_vars
    /\ [](\A id \in LiveIds : TimesHandled(id) <= 1)
    /\ [](\A id \in SeqToSet(sent) :
             (a_peer /\ ~InSendAry(id)) => TimesHandled(id) = 1)
    /\ \A id \in LiveIds :
          InSendAry(id) ~> (~InSendAry(id) \/ ~a_peer \/ ~b_peer)

\* The only transmission so far was dropped before B saw it; the packet
\* was sent again, handled once and acknowledged, and its slot is free.
C7_Witness ==
    /\ lost
    /\ sent = <<42>>
    /\ handled = <<42>>
    /\ ~InSendAry(42)
    /\ a_peer
    /\ b_peer

(***************************************************************************)
(* Part II: the group.  F is the founder of a chat, J a second peer; X is  *)
(* a third key that only knocks with handshake requests.  chan holds the   *)
(* lossless packets of each direction in the order the receiver hands      *)
(* them to handle_gc_lossless_helper (Part I's stream, established, every  *)
(* packet getting through once), lossy the lossy packets in flight.        *)
(* Sanctions list and topic are outside this model.                        *)
(***************************************************************************)
Nodes == {"F", "J"}

Keys == {"F", "J", "X"}

Others(n) == Keys \ {n}

Passwords == {<<>>, <<1>>, <<1, 2>>, <<2>>}

Nicks == {"f", "j"}

MaxOps == 1

Max(a, b) == IF a >= b THEN a ELSE b

\* passwd[] is a zero-filled array; a sequence stands for its leading
\* bytes and every byte after it is 0.
Byte(buf, i) == IF i <= Len(buf) THEN buf[i] ELSE 0

memcmp(a, b, len) == IF \A i \in 1 .. len : Byte(a, i) = Byte(b, i) THEN 0 ELSE 1

memcpy(dst, src, len) ==
    [i \in 1 .. Max(Len(dst), len) |-> IF i <= len THEN Byte(src, i) ELSE dst[i]]

NoState ==
    [version |-> 0, maxpeers |-> 0, passwd_len |-> 0, passwd |-> <<>>,
     privacy_state |-> "GI_PUBLIC", mod_list_hash |-> <<"hash", <<>>>>,
     founder_public_key |-> ""]

NoSig == [signer |-> "", over |-> NoState]

NoPeer ==
    [present |-> FALSE, handshaked |-> FALSE, confirmed |-> FALSE,
     nick |-> "", role |-> "GR_USER",
     pending_sync_request |-> FALSE, pending_state_sync |-> FALSE,
     is_pending_handshake_response |-> FALSE,
     friend_shared_state_version |-> 0,
     self_sent_shared_state_version |-> 0]

BlankPkt ==
    [type |-> "NONE", nick |-> "", passwd |-> <<>>, code |-> "",
     state |-> NoState, sig |-> NoSig, mods |-> <<>>, add |-> FALSE,
     target |-> "", role |-> "", num |-> 0, version |-> 0, keys |-> {}]

CB(name, arg, num) == [name |-> name, arg |-> arg, num |-> num]

\* The part of the program a handler running at node n can touch.
St(n) == [n |-> n, c |-> chat[n], pt |-> peers[n], ch |-> chan, ly |-> lossy,
          cb |-> cb[n]]

\* The state a handler leaves behind becomes the next state.
Commit(s) ==
    /\ chat' = [chat EXCEPT ![s.n] = s.c]
    /\ peers' = [peers EXCEPT ![s.n] = s.pt]
    /\ chan' = s.ch
    /\ lossy' = s.ly
    /\ cb' = [cb EXCEPT ![s.n] = s.cb]
    /\ UNCHANGED <<tvars, avars, avars>>

Callback(s, name, arg, num) == [s EXCEPT !.cb = Append(@, CB(name, arg, num))]

is_public_chat(c) == c.shared_state.privacy_state = "GI_PUBLIC"

is_peer_confirmed(c, k) == k \in c.confirmed_peers

get_gc_confirmed_numpeers(s) ==
    1 + Cardinality({k \in Others(s.n) : s.pt[k].present /\ s.pt[k].confirmed})

numpeers(s) == 1 + Cardinality({k \in Others(s.n) : s.pt[k].present})

\* The peer that holds the nick, s.n for self; "" when nobody does.
get_nick_peernumber(s, nick) ==
    IF nick = "" THEN ""
    ELSE IF s.c.nick = nick THEN s.n
    ELSE IF \E k \in Others(s.n) : s.pt[k].present /\ s.pt[k].nick = nick
         THEN CHOOSE k \in Others(s.n) : s.pt[k].present /\ s.pt[k].nick = nick
         ELSE ""

\* gcc[1]: peers are appended in the order F, J, X and a deletion moves the
\* last one into the gap.
FirstPeer(s) ==
    IF "F" # s.n /\ s.pt["F"].present THEN "F"
    ELSE IF "J" # s.n /\ s.pt["J"].present THEN "J"
    ELSE "X"

mod_list_make_hash(mod_list) == <<"hash", mod_list>>

mod_list_index_of_sig_pk(mod_list, k) == \E i \in 1 .. Len(mod_list) : mod_list[i] = k

mod_list_add_entry(mod_list, k) == Append(mod_list, k)

mod_list_remove_entry(mod_list, k) == SelectSeq(mod_list, LAMBDA e : e # k)

crypto_sign_detached(ss) == [signer |-> "chat_secret_key", over |-> ss]

crypto_sign_verify_detached(sig, ss) ==
    sig.signer = "chat_secret_key" /\ sig.over = ss

set_gc_password_local(ss, passwd) ==
    IF Len(passwd) = 0
    THEN [ss EXCEPT !.passwd_len = 0, !.passwd = <<>>]
    ELSE [ss EXCEPT !.passwd_len = Len(passwd),
                    !.passwd = memcpy(@, passwd, Len(passwd))]

\* The password test of the invite, sync and peer-info handlers.
PasswdAccepted(c, passwd) ==
    \/ c.shared_state.passwd_len = 0
    \/ memcmp(c.shared_state.passwd, passwd, c.shared_state.passwd_len) = 0

SendLossless(s, k, pkt) ==
    IF s.pt[k].present /\ s.pt[k].handshaked /\ k \in Nodes
    THEN [s EXCEPT !.ch[<<s.n, k>>] = Append(@, pkt)]
    ELSE s

send_lossy_group_packet(s, k, pkt) ==
    IF s.pt[k].present /\ s.pt[k].handshaked /\ k \in Nodes
    THEN [s EXCEPT !.ly = @ \cup {[src |-> s.n, dst |-> k, pkt |-> pkt]}]
    ELSE s

send_gc_lossless_packet_all_peers(s, pkt) ==
    LET to == {k \in Others(s.n) \cap Nodes :
                  s.pt[k].present /\ s.pt[k].confirmed /\ s.pt[k].handshaked}
    IN  [s EXCEPT !.ch = [pr \in DOMAIN s.ch |->
                            IF pr[1] = s.n /\ pr[2] \in to
                            THEN Append(s.ch[pr], pkt) ELSE s.ch[pr]]]

gc_peer_delete(s, k, reason) ==
    IF s.c.connection_state \in {"CS_DISCONNECTED", "CS_CONNECTING"}
          /\ ~is_public_chat(s.c)
    THEN s
    ELSE IF ~s.pt[k].present THEN s
    ELSE LET s1 == IF s.pt[k].handshaked
                   THEN [s EXCEPT !.c.confirmed_peers = @ \cup {k}] ELSE s
             s2 == IF s.pt[k].confirmed
                   THEN Callback(s1, "peer_exit", k, 0) ELSE s1
         IN  [s2 EXCEPT !.pt[k] = NoPeer]

peer_add(s, k) ==
    IF s.pt[k].present THEN s
    ELSE [s EXCEPT !.pt[k] = [NoPeer EXCEPT !.present = TRUE]]

validate_gc_peer_role(s, k) ==
    LET role == IF k = s.n THEN s.c.role ELSE s.pt[k].role
    IN  CASE role = "GR_FOUNDER" -> s.c.shared_state.founder_public_key = k
          [] role = "GR_MODERATOR" -> mod_list_index_of_sig_pk(s.c.mod_list, k)
          [] role = "GR_USER" -> TRUE
          [] role = "GR_OBSERVER" -> k = s.n
          [] OTHER -> FALSE

\* ---- joining -------------------------------------------------------------

send_gc_invite_request(s, k) ==
    SendLossless(s, k, [BlankPkt EXCEPT !.type = "GP_INVITE_REQUEST",
                                        !.nick = s.c.nick,
                                        !.passwd = s.c.shared_state.passwd])

send_gc_invite_response(s, k) ==
    SendLossless(s, k, [BlankPkt EXCEPT !.type = "GP_INVITE_RESPONSE"])

send_gc_invite_response_reject(s, k, type) ==
    send_lossy_group_packet(s, k,
        [BlankPkt EXCEPT !.type = "GP_INVITE_RESPONSE_REJECT", !.code = type])

send_gc_sync_request(s, k) ==
    IF s.pt[k].pending_sync_request THEN s
    ELSE SendLossless([s EXCEPT !.pt[k].pending_sync_request = TRUE], k,
             [BlankPkt EXCEPT !.type = "GP_SYNC_REQUEST",
                              !.passwd = s.c.shared_state.passwd])

send_self_to_peer(s, k) ==
    SendLossless(s, k, [BlankPkt EXCEPT !.type = "GP_PEER_INFO_RESPONSE",
                                        !.passwd = s.c.shared_state.passwd,
                                        !.nick = s.c.nick,
                                        !.role = s.c.role])

send_gc_peer_info_request(s, k) ==
    SendLossless(s, k, [BlankPkt EXCEPT !.type = "GP_PEER_INFO_REQUEST"])

send_gc_peer_exchange(s, k) == send_gc_peer_info_request(send_self_to_peer(s, k), k)

make_gc_shared_state_packet(s) ==
    [BlankPkt EXCEPT !.type = "GP_SHARED_STATE",
                     !.state = s.c.shared_state,
                     !.sig = s.c.shared_state_sig]

send_peer_shared_state(s, k) == SendLossless(s, k, make_gc_shared_state_packet(s))

send_peer_mod_list(s, k) ==
    SendLossless(s, k, [BlankPkt EXCEPT !.type = "GP_MOD_LIST",
                                        !.mods = s.c.mod_list])

id_cmp(a, b) == IF a = b THEN 0 ELSE IF <<a, b>> \in {<<"J", "F">>, <<"X", "F">>, <<"X", "J">>} THEN 1 ELSE -1

handle_gc_hs_response_ack(s, k, p) ==
    LET s1 == [s EXCEPT !.pt[k].handshaked = TRUE,
                        !.pt[k].is_pending_handshake_response = FALSE]
        g  == s.pt[k]
    IN  IF \/ g.friend_shared_state_version > g.self_sent_shared_state_version
           \/ /\ g.friend_shared_state_version = g.self_sent_shared_state_version
              /\ id_cmp(s.n, k) > 0
        THEN send_gc_invite_request(s1, k)
        ELSE s1

handle_gc_invite_request_NoFullCheck(s, k, p) ==
    LET failed_invite(type) ==
            gc_peer_delete(send_gc_invite_response_reject(s, k, type), k, "")
        by_nick == get_nick_peernumber(s, p.nick)
    IN  IF p.nick = "" THEN s
        ELSE IF s.c.connection_state # "CS_CONNECTED" \/ s.c.shared_state.version = 0
        THEN s
        ELSE IF by_nick # "" /\ by_nick # k
        THEN failed_invite("GJ_NICK_TAKEN")
        ELSE IF ~PasswdAccepted(s.c, p.passwd)
        THEN failed_invite("GJ_INVALID_PASSWORD")
        ELSE send_gc_invite_response(s, k)

handle_gc_invite_request(s, k, p) ==
    LET failed_invite(type) ==
            gc_peer_delete(send_gc_invite_response_reject(s, k, type), k, "")
        by_nick == get_nick_peernumber(s, p.nick)
    IN  IF p.nick = "" THEN s
        ELSE IF s.c.connection_state # "CS_CONNECTED" \/ s.c.shared_state.version = 0
        THEN s
        ELSE IF get_gc_confirmed_numpeers(s) >= s.c.shared_state.maxpeers
        THEN failed_invite("GJ_GROUP_FULL")
        ELSE IF by_nick # "" /\ by_nick # k
        THEN failed_invite("GJ_NICK_TAKEN")
        ELSE IF ~PasswdAccepted(s.c, p.passwd)
        THEN failed_invite("GJ_INVALID_PASSWORD")
        ELSE send_gc_invite_response(s, k)

handle_gc_invite_response_NoSync(s, k, p) == s

handle_gc_invite_response(s, k, p) == send_gc_sync_request(s, k)

handle_gc_invite_response_reject(s, p) ==
    IF s.c.connection_state = "CS_CONNECTED" THEN s
    ELSE Callback([s EXCEPT !.c.connection_state = "CS_FAILED"],
                  "rejected", p.code, 0)

handle_gc_sync_request(s, k, p) ==
    IF s.c.connection_state # "CS_CONNECTED" \/ s.c.shared_state.version = 0
    THEN s
    ELSE IF ~PasswdAccepted(s.c, p.passwd) THEN s
    ELSE LET s1 == send_peer_mod_list(send_peer_shared_state(s, k), k)
             known == {j \in Others(s.n) \ {k} : s.pt[j].present /\ s.pt[j].confirmed}
         IN  SendLossless(s1, k, [BlankPkt EXCEPT !.type = "GP_SYNC_RESPONSE",
                                                  !.num = Cardinality(known),
                                                  !.keys = known])

RECURSIVE AddSyncPeers(_, _)
AddSyncPeers(s, keys) ==
    IF keys = {} THEN s
    ELSE LET j == CHOOSE x \in keys : TRUE
         IN  AddSyncPeers(IF j = s.n THEN s ELSE peer_add(s, j), keys \ {j})

self_gc_connected(s) == [s EXCEPT !.c.connection_state = "CS_CONNECTED"]

handle_gc_sync_response(s, k, p) ==
    IF ~s.pt[k].pending_sync_request THEN s
    ELSE LET s1 == [s EXCEPT !.pt[k].pending_sync_request = FALSE]
             s2 == AddSyncPeers(s1, p.keys)
             s3 == send_gc_peer_exchange(self_gc_connected(s2), k)
         IN  Callback(s3, "self_join", "", 0)

handle_gc_peer_info_request(s, k, p) ==
    IF ~s.pt[k].confirmed
          /\ get_gc_confirmed_numpeers(s) >= s.c.shared_state.maxpeers
    THEN s
    ELSE send_self_to_peer(s, k)

peer_update(s, k, p) ==
    LET nick_num == get_nick_peernumber(s, p.nick)
    IN  IF p.nick = "" THEN [ok |-> FALSE, s |-> s]
        ELSE IF nick_num # "" /\ nick_num # k
        THEN [ok |-> FALSE,
              s |-> gc_peer_delete(Callback(s, "peer_exit", k, 0), k, "duplicate nick")]
        ELSE [ok |-> TRUE,
              s |-> [s EXCEPT !.pt[k].nick = p.nick, !.pt[k].role = p.role]]

handle_gc_peer_info_response(s, k, p) ==
    IF s.c.connection_state # "CS_CONNECTED" THEN s
    ELSE IF ~s.pt[k].confirmed
               /\ get_gc_confirmed_numpeers(s) >= s.c.shared_state.maxpeers
    THEN s
    ELSE IF ~PasswdAccepted(s.c, p.passwd) THEN s
    ELSE LET u == peer_update(s, k, p)
         IN  IF ~u.ok THEN u.s
             ELSE IF ~validate_gc_peer_role(u.s, k)
             THEN gc_peer_delete(u.s, k, "")
             ELSE LET s1 == IF ~u.s.pt[k].confirmed
                            THEN Callback(u.s, "peer_join", k, 0) ELSE u.s
                  IN  [s1 EXCEPT !.pt[k].confirmed = TRUE]

\* ---- shared state and moderator list --------------------------------------

do_gc_shared_state_changes(s, old) ==
    LET new == s.c.shared_state
        s1 == IF new.maxpeers # old.maxpeers
              THEN Callback(s, "peer_limit", "", new.maxpeers) ELSE s
        s2 == IF new.privacy_state # old.privacy_state
              THEN Callback(s1, "privacy_state", new.privacy_state, 0) ELSE s1
    IN  IF new.passwd_len # old.passwd_len
              \/ memcmp(new.passwd, old.passwd, old.passwd_len) # 0
        THEN Callback(s2, "password", "", new.passwd_len) ELSE s2

\* The on_error exit of the shared-state and moderator-list handlers.
BadPeer(s, k, reason) ==
    LET s1 == gc_peer_delete(s, k, reason)
    IN  IF s1.c.shared_state.version = 0
        THEN [s1 EXCEPT !.c.connection_state = "CS_DISCONNECTED"]
        ELSE IF numpeers(s1) <= 1 THEN s1
        ELSE send_gc_sync_request(s1, FirstPeer(s1))

\* The values sent here are all legal ones, so validate_gc_shared_state
\* never refuses.
handle_gc_shared_state(s, k, p) ==
    IF ~crypto_sign_verify_detached(p.sig, p.state)
    THEN BadPeer(s, k, "BAD SHARED STATE")
    ELSE IF p.state.version < s.c.shared_state.version THEN s
    ELSE do_gc_shared_state_changes(
             [s EXCEPT !.c.shared_state = p.state, !.c.shared_state_sig = p.sig],
             s.c.shared_state)

handle_gc_mod_list(s, k, p) ==
    IF s.c.role = "GR_FOUNDER" THEN s
    ELSE LET s1 == [s EXCEPT !.c.mod_list = p.mods]
         IN  IF mod_list_make_hash(s1.c.mod_list) # s1.c.shared_state.mod_list_hash
             THEN BadPeer(s1, k, "BAD MLIST")
             ELSE IF ~validate_gc_peer_role(s1, s1.n)
             THEN [s1 EXCEPT !.c.role = "GR_USER"]
             ELSE s1

handle_bc_set_mod(s, k, p) ==
    LET target_valid == p.target = s.n \/ (p.target \in Others(s.n) /\ s.pt[p.target].present)
        listed == mod_list_index_of_sig_pk(s.c.mod_list, p.target)
        s1 == IF p.add
              THEN [s EXCEPT !.c.mod_list = mod_list_add_entry(@, p.target)]
              ELSE [s EXCEPT !.c.mod_list = mod_list_remove_entry(@, p.target)]
        role == IF p.add THEN "GR_MODERATOR" ELSE "GR_USER"
    IN  IF s.pt[k].role # "GR_FOUNDER" THEN s
        ELSE IF k = p.target THEN s
        ELSE IF p.add = listed THEN s
        ELSE IF ~target_valid THEN s1
        ELSE Callback(IF p.target = s.n
                      THEN [s1 EXCEPT !.c.role = role]
                      ELSE [s1 EXCEPT !.pt[p.target].role = role],
                      "moderation", p.target, 0)

handle_gc_broadcast(s, k, p) ==
    IF s.c.connection_state # "CS_CONNECTED" THEN s
    ELSE IF ~s.pt[k].confirmed THEN s
    ELSE handle_bc_set_mod(s, k, p)

sign_gc_shared_state(s) ==
    LET ss == [s.c.shared_state EXCEPT !.version = @ + 1]
    IN  [s EXCEPT !.c.shared_state = ss,
                  !.c.shared_state_sig = crypto_sign_detached(ss)]

broadcast_gc_shared_state(s) ==
    send_gc_lossless_packet_all_peers(s, make_gc_shared_state_packet(s))

gc_founder_set_password(s, passwd) ==
    IF s.c.role # "GR_FOUNDER" THEN s
    ELSE broadcast_gc_shared_state(sign_gc_shared_state(
             [s EXCEPT !.c.shared_state = set_gc_password_local(@, passwd)]))

gc_founder_set_max_peers(s, maxpeers) ==
    IF s.c.role # "GR_FOUNDER" THEN s
    ELSE IF maxpeers = s.c.shared_state.maxpeers THEN s
    ELSE broadcast_gc_shared_state(sign_gc_shared_state(
             [s EXCEPT !.c.shared_state.maxpeers = maxpeers]))

gc_founder_set_privacy_state(s, new_privacy_state) ==
    IF s.c.role # "GR_FOUNDER" THEN s
    ELSE IF new_privacy_state = s.c.shared_state.privacy_state THEN s
    ELSE broadcast_gc_shared_state(sign_gc_shared_state(
             [s EXCEPT !.c.shared_state.privacy_state = new_privacy_state]))

send_gc_set_mod(s, k, add_mod) ==
    send_gc_lossless_packet_all_peers(s,
        [BlankPkt EXCEPT !.type = "GP_BROADCAST", !.code = "GM_SET_MOD",
                         !.add = add_mod, !.target = k])

founder_gc_set_moderator(s, k, add_mod) ==
    LET listed == mod_list_index_of_sig_pk(s.c.mod_list, k)
        list == IF add_mod THEN mod_list_add_entry(s.c.mod_list, k)
                ELSE mod_list_remove_entry(s.c.mod_list, k)
        s1 == [s EXCEPT !.c.mod_list = list,
                        !.c.shared_state.mod_list_hash = mod_list_make_hash(list)]
    IN  IF s.c.role # "GR_FOUNDER" THEN s
        ELSE IF add_mod = listed THEN s
        ELSE send_gc_set_mod(broadcast_gc_shared_state(sign_gc_shared_state(s1)),
                             k, add_mod)

\* ---- pings -----------------------------------------------------------------

ping_group(s) ==
    LET to == {k \in Others(s.n) \cap Nodes :
                  s.pt[k].present /\ s.pt[k].confirmed /\ s.pt[k].handshaked}
        pkt == [BlankPkt EXCEPT !.type = "GP_PING",
                                !.num = get_gc_confirmed_numpeers(s),
                                !.version = s.c.shared_state.version]
    IN  [s EXCEPT !.ly = @ \cup {[src |-> s.n, dst |-> k, pkt |-> pkt] : k \in to}]

do_gc_peer_state_sync(s, k, p) ==
    IF p.num > get_gc_confirmed_numpeers(s) \/ p.version > s.c.shared_state.version
    THEN IF s.pt[k].pending_state_sync
         THEN [send_gc_sync_request(s, k) EXCEPT !.pt[k].pending_state_sync = FALSE]
         ELSE [s EXCEPT !.pt[k].pending_state_sync = TRUE]
    ELSE [s EXCEPT !.pt[k].pending_state_sync = FALSE]

handle_gc_ping(s, k, p) ==
    IF ~s.pt[k].confirmed THEN s ELSE do_gc_peer_state_sync(s, k, p)

\* ---- handshake requests and their rate limiter ----------------------------

GC_NEW_PEER_CONNECTION_LIMIT == 10

MaxRequests == 12

JoinTypes == {"HJ_PUBLIC", "HJ_PRIVATE"}

peer_reconnect(s, k) == peer_add(gc_peer_delete(s, k, ""), k)

handle_gc_handshake_request_NoLimit(s, k, join_type) ==
    LET s1 == [s EXCEPT !.c.connection_O_metre = @ + 1]
        s2 == IF ~s1.pt[k].present THEN peer_add(s1, k)
              ELSE IF s1.pt[k].handshaked THEN peer_reconnect(s1, k)
              ELSE s1
    IN  IF s.c.connection_state = "CS_FAILED" THEN s
        ELSE IF ~s1.pt[k].present
                   /\ ~(is_public_chat(s1.c) \/ is_peer_confirmed(s1.c, k))
        THEN s1
        ELSE IF ~s2.pt[k].present THEN s2
        ELSE IF join_type = "HJ_PUBLIC" /\ ~is_public_chat(s2.c)
        THEN gc_peer_delete(s2, k, "join priv chat as public")
        ELSE [s2 EXCEPT !.pt[k].is_pending_handshake_response = TRUE,
                        !.pt[k].friend_shared_state_version = 0]

handle_gc_handshake_request(s, k, join_type) ==
    LET s1 == [s EXCEPT !.c.connection_O_metre = @ + 1]
        s2 == IF ~s1.pt[k].present THEN peer_add(s1, k)
              ELSE IF s1.pt[k].handshaked THEN peer_reconnect(s1, k)
              ELSE s1
    IN  IF s.c.connection_state = "CS_FAILED" THEN s
        ELSE IF s.c.connection_O_metre >= GC_NEW_PEER_CONNECTION_LIMIT
        THEN [s EXCEPT !.c.block_handshakes = TRUE]
        ELSE IF ~s1.pt[k].present
                   /\ ~(is_public_chat(s1.c) \/ is_peer_confirmed(s1.c, k))
        THEN s1
        ELSE IF ~s2.pt[k].present THEN s2
        ELSE IF join_type = "HJ_PUBLIC" /\ ~is_public_chat(s2.c)
        THEN gc_peer_delete(s2, k, "join priv chat as public")
        ELSE [s2 EXCEPT !.pt[k].is_pending_handshake_response = TRUE,
                        !.pt[k].friend_shared_state_version = 0]

\* cooldown_now stands for connection_cooldown_timer == unix_time().
do_new_connection_cooldown(s) ==
    IF s.c.connection_O_metre = 0 THEN s
    ELSE IF ~s.c.cooldown_now
    THEN [s EXCEPT !.c.cooldown_now = TRUE,
                   !.c.connection_O_metre = @ - 1,
                   !.c.block_handshakes =
                       IF s.c.connection_O_metre = 1 THEN FALSE ELSE @]
    ELSE s

\* A handshake request from k reaches n.
HandshakeRequest(n, k, join_type) ==
    /\ ops > 0
    /\ ops' = ops - 1
    /\ Commit(handle_gc_handshake_request(St(n), k, join_type))

\* do_gc's CS_CONNECTED case, as far as the limiter goes.
Cooldown(n) ==
    /\ chat[n].connection_state = "CS_CONNECTED"
    /\ chat[n].connection_O_metre > 0
    /\ ~chat[n].cooldown_now
    /\ Commit(do_new_connection_cooldown(St(n)))
    /\ UNCHANGED ops

\* unix_time() moves on by a second.
Second(n) ==
    /\ chat[n].cooldown_now
    /\ chat' = [chat EXCEPT ![n].cooldown_now = FALSE]
    /\ UNCHANGED <<tvars, avars, peers, chan, lossy, cb, ops>>

\* ---- initial states --------------------------------------------------------

FounderState(maxpeers, passwd, privacy_state) ==
    [set_gc_password_local(NoState, passwd) EXCEPT
        !.version = 1, !.maxpeers = maxpeers, !.privacy_state = privacy_state,
        !.founder_public_key = "F"]

FounderChat(maxpeers, passwd, privacy_state, ring) ==
    [connection_state |-> "CS_CONNECTED",
     shared_state |-> FounderState(maxpeers, passwd, privacy_state),
     shared_state_sig |-> crypto_sign_detached(FounderState(maxpeers, passwd, privacy_state)),
     mod_list |-> <<>>, nick |-> "f", role |-> "GR_FOUNDER",
     connection_O_metre |-> 0, block_handshakes |-> FALSE,
     cooldown_now |-> FALSE, confirmed_peers |-> ring]

JoinerChat(nick, passwd) ==
    [connection_state |-> "CS_CONNECTING",
     shared_state |-> set_gc_password_local(NoState, passwd),
     shared_state_sig |-> NoSig,
     mod_list |-> <<>>, nick |-> nick, role |-> "GR_USER",
     connection_O_metre |-> 0, block_handshakes |-> FALSE,
     cooldown_now |-> FALSE, confirmed_peers |-> {}]

NoPeers(n) == [k \in Others(n) |-> NoPeer]

\* Part I's variables while the group is looked at.
TransportIdle ==
    /\ send_message_id = 1
    /\ recv_message_id = 0
    /\ a_peer = FALSE
    /\ b_peer = FALSE
    /\ handshaked = FALSE
    /\ send_ary = EmptyAry
    /\ recv_ary = EmptyAry
    /\ wire = {}
    /\ ackwire = {}
    /\ hs_wire = 0
    /\ sent = <<>>
    /\ handled = <<>>
    /\ lost = FALSE
    /\ last_ret = -2
    /\ to_send = 0

\* J has just handled F's handshake response to its HS_INVITE_REQUEST
\* handshake: it holds F as handshaked and has sent HS_RESPONSE_ACK and
\* INVITE_REQUEST.  F added J on the request and awaits the ack.
Handshaked(maxpeers, fpasswd, jnick, jpasswd, budget) ==
    /\ TransportIdle
    /\ ApiIdle
    /\ chat = [n \in Nodes |->
                 IF n = "F" THEN FounderChat(maxpeers, fpasswd, "GI_PUBLIC", {})
                 ELSE JoinerChat(jnick, jpasswd)]
    /\ peers = [n \in Nodes |->
                 IF n = "F"
                 THEN [NoPeers("F") EXCEPT
                         !["J"] = [NoPeer EXCEPT
                                     !.present = TRUE,
                                     !.is_pending_handshake_response = TRUE,
                                     !.self_sent_shared_state_version = 1]]
                 ELSE [NoPeers("J") EXCEPT
                         !["F"] = [NoPeer EXCEPT
                                     !.present = TRUE, !.handshaked = TRUE,
                                     !.friend_shared_state_version = 1]]]
    /\ chan = [pr \in {<<"F", "J">>, <<"J", "F">>} |->
                 IF pr = <<"J", "F">>
                 THEN <<[BlankPkt EXCEPT !.type = "GP_HS_RESPONSE_ACK"],
                        [BlankPkt EXCEPT !.type = "GP_INVITE_REQUEST",
                                         !.nick = jnick,
                                         !.passwd = set_gc_password_local(NoState, jpasswd).passwd]>>
                 ELSE <<>>]
    /\ lossy = {}
    /\ cb = [n \in Nodes |-> <<>>]
    /\ ops = budget

JoinInit ==
    \E maxpeers \in 1 .. 2, fpasswd \in Passwords, jnick \in Nicks,
       jpasswd \in Passwords :
        Handshaked(maxpeers, fpasswd, jnick, jpasswd, MaxOps)

LimiterInit ==
    /\ TransportIdle
    /\ ApiIdle
    /\ \E privacy_state \in {"GI_PUBLIC", "GI_PRIVATE"}, ring \in {{}, {"J"}} :
          chat = [n \in Nodes |->
                    IF n = "F" THEN FounderChat(3, <<>>, privacy_state, ring)
                    ELSE JoinerChat("j", <<>>)]
    /\ peers = [n \in Nodes |-> NoPeers(n)]
    /\ chan = [pr \in {<<"F", "J">>, <<"J", "F">>} |-> <<>>]
    /\ lossy = {}
    /\ cb = [n \in Nodes |-> <<>>]
    /\ ops = MaxRequests

LimiterNext ==
    \/ \E k \in Others("F"), join_type \in JoinTypes : HandshakeRequest("F", k, join_type)
    \/ Cooldown("F")
    \/ Second("F")

SpecLimiter == LimiterInit /\ [][LimiterNext]_vars

\* C9: a handshake request that arrives while connection_O_metre has
\* reached GC_NEW_PEER_CONNECTION_LIMIT adds no peer and schedules no
\* handshake response; once the counter is below the limit again a request
\* is taken (and counted); the counter never exceeds the limit.
C9_HandshakesDroppedAtLimit ==
    /\ [](chat["F"].connection_O_metre <= GC_NEW_PEER_CONNECTION_LIMIT)
    /\ [][\A k \in Others("F"), join_type \in JoinTypes :
             HandshakeRequest("F", k, join_type) =>
                IF chat["F"].connection_O_metre >= GC_NEW_PEER_CONNECTION_LIMIT
                THEN /\ peers' = peers
                     /\ chat'["F"].connection_O_metre = chat["F"].connection_O_metre
                ELSE /\ chat'["F"].connection_O_metre = chat["F"].connection_O_metre + 1
                     /\ (is_public_chat(chat["F"]) =>
                            /\ peers'["F"][k].present
                            /\ peers'["F"][k].is_pending_handshake_response)]_vars

\* A request was dropped at the limit and the counter has since decayed
\* below it.
C9_Witness ==
    /\ chat["F"].block_handshakes
    /\ chat["F"].connection_O_metre = GC_NEW_PEER_CONNECTION_LIMIT - 1
    /\ ops = 0

\* ---- the steps of the group ------------------------------------------------

\* handle_gc_lossless_message hands the next packet of k's stream to the
\* handler of its type; a packet of an unknown peer, or of one that has not
\* handshaked, is refused before that.
Accepts(n, k, type) ==
    /\ peers[n][k].present
    /\ type = "GP_HS_RESPONSE_ACK" \/ peers[n][k].handshaked

NextIs(n, k, type) ==
    /\ chan[<<k, n>>] # <<>>
    /\ Head(chan[<<k, n>>]).type = type
    /\ Accepts(n, k, type)

Deliver(n, k, handler(_, _, _)) ==
    /\ Commit(handler([St(n) EXCEPT !.ch[<<k, n>>] = Tail(@)], k,
                      Head(chan[<<k, n>>])))
    /\ UNCHANGED ops

Refuse(n, k) ==
    /\ chan[<<k, n>>] # <<>>
    /\ ~Accepts(n, k, Head(chan[<<k, n>>]).type)
    /\ chan' = [chan EXCEPT ![<<k, n>>] = Tail(@)]
    /\ UNCHANGED <<tvars, avars, chat, peers, lossy, cb, ops>>

RecvHsResponseAck(n, k) ==
    /\ NextIs(n, k, "GP_HS_RESPONSE_ACK")
    /\ Deliver(n, k, handle_gc_hs_response_ack)

RecvInviteRequest(n, k) ==
    /\ NextIs(n, k, "GP_INVITE_REQUEST")
    /\ Deliver(n, k, handle_gc_invite_request)

RecvInviteResponse(n, k) ==
    /\ NextIs(n, k, "GP_INVITE_RESPONSE")
    /\ Deliver(n, k, handle_gc_invite_response)

RecvSyncRequest(n, k) ==
    /\ NextIs(n, k, "GP_SYNC_REQUEST")
    /\ Deliver(n, k, handle_gc_sync_request)

RecvSharedState(n, k) ==
    /\ NextIs(n, k, "GP_SHARED_STATE")
    /\ Deliver(n, k, handle_gc_shared_state)

RecvModList(n, k) ==
    /\ NextIs(n, k, "GP_MOD_LIST")
    /\ Deliver(n, k, handle_gc_mod_list)

RecvSyncResponse(n, k) ==
    /\ NextIs(n, k, "GP_SYNC_RESPONSE")
    /\ Deliver(n, k, handle_gc_sync_response)

RecvPeerInfoRequest(n, k) ==
    /\ NextIs(n, k, "GP_PEER_INFO_REQUEST")
    /\ Deliver(n, k, handle_gc_peer_info_request)

RecvPeerInfoResponse(n, k) ==
    /\ NextIs(n, k, "GP_PEER_INFO_RESPONSE")
    /\ Deliver(n, k, handle_gc_peer_info_response)

RecvBroadcast(n, k) ==
    /\ NextIs(n, k, "GP_BROADCAST")
    /\ Deliver(n, k, handle_gc_broadcast)

\* handle_gc_lossy_message: the sender must be a handshaked peer.
DeliverLossy(l, type) ==
    /\ l \in lossy
    /\ l.pkt.type = type
    /\ peers[l.dst][l.src].present
    /\ peers[l.dst][l.src].handshaked

RecvInviteResponseReject(l) ==
    /\ DeliverLossy(l, "GP_INVITE_RESPONSE_REJECT")
    /\ Commit(handle_gc_invite_response_reject(
                  [St(l.dst) EXCEPT !.ly = @ \ {l}], l.pkt))
    /\ UNCHANGED ops

RecvPing(l) ==
    /\ DeliverLossy(l, "GP_PING")
    /\ Commit(handle_gc_ping([St(l.dst) EXCEPT !.ly = @ \ {l}], l.src, l.pkt))
    /\ UNCHANGED ops

LoseLossy(l) ==
    /\ l \in lossy
    /\ lossy' = lossy \ {l}
    /\ UNCHANGED <<tvars, avars, chat, peers, chan, cb, ops>>

\* do_gc, CS_CONNECTED: a ping goes out once the ping interval is over; the
\* one before it has arrived or is lost by then.
PingGroup(n) ==
    /\ chat[n].connection_state = "CS_CONNECTED"
    /\ \A l \in lossy : ~(l.src = n /\ l.pkt.type = "GP_PING")
    /\ ping_group(St(n)).ly # lossy
    /\ Commit(ping_group(St(n)))
    /\ UNCHANGED ops

\* do_peer_connections finds that k has sent no ping for too long.
PeerTimesOut(n, k) ==
    /\ ops > 0
    /\ chat[n].connection_state = "CS_CONNECTED"
    /\ peers[n][k].present
    /\ Commit(gc_peer_delete(St(n), k, "Timed out"))
    /\ ops' = ops - 1

\* The founder's API calls.
FounderCall(n, s) ==
    /\ ops > 0
    /\ chat[n].role = "GR_FOUNDER"
    /\ s # St(n)
    /\ Commit(s)
    /\ ops' = ops - 1

SetPassword(n, passwd) ==
    /\ passwd \in Passwords
    /\ FounderCall(n, gc_founder_set_password(St(n), passwd))

SetMaxPeers(n, maxpeers) ==
    /\ maxpeers \in Nat
    /\ FounderCall(n, gc_founder_set_max_peers(St(n), maxpeers))

SetPrivacyState(n, state) ==
    /\ state \in {"GI_PUBLIC", "GI_PRIVATE"}
    /\ FounderCall(n, gc_founder_set_privacy_state(St(n), state))

SetModerator(n, k, add_mod) ==
    /\ peers[n][k].present
    /\ FounderCall(n, founder_gc_set_moderator(St(n), k, add_mod))

JoinNext ==
    \/ \E n \in Nodes : \E k \in Nodes \ {n} : RecvHsResponseAck(n, k)
    \/ \E n \in Nodes : \E k \in Nodes \ {n} : RecvInviteRequest(n, k)
    \/ \E n \in Nodes : \E k \in Nodes \ {n} : RecvInviteResponse(n, k)
    \/ \E n \in Nodes : \E k \in Nodes \ {n} : RecvSyncRequest(n, k)
    \/ \E n \in Nodes : \E k \in Nodes \ {n} : RecvSharedState(n, k)
    \/ \E n \in Nodes : \E k \in Nodes \ {n} : RecvModList(n, k)
    \/ \E n \in Nodes : \E k \in Nodes \ {n} : RecvSyncResponse(n, k)
    \/ \E n \in Nodes : \E k \in Nodes \ {n} : RecvPeerInfoRequest(n, k)
    \/ \E n \in Nodes : \E k \in Nodes \ {n} : RecvPeerInfoResponse(n, k)
    \/ \E n \in Nodes : \E k \in Nodes \ {n} : RecvBroadcast(n, k)
    \/ \E n \in Nodes : \E k \in Nodes \ {n} : Refuse(n, k)
    \/ \E l \in lossy : RecvInviteResponseReject(l)
    \/ \E l \in lossy : RecvPing(l)
    \/ \E l \in lossy : LoseLossy(l)
    \/ \E n \in Nodes : PingGroup(n)
    \/ \E n \in Nodes : \E k \in Nodes \ {n} : PeerTimesOut(n, k)
    \/ \E passwd \in Passwords : SetPassword("F", passwd)
    \/ \E maxpeers \in 1 .. 2 : SetMaxPeers("F", maxpeers)
    \/ \E state \in {"GI_PUBLIC", "GI_PRIVATE"} : SetPrivacyState("F", state)
    \/ \E add_mod \in BOOLEAN : SetModerator("F", "J", add_mod)

SpecJoin == JoinInit /\ [][JoinNext]_vars

\* ---- claims about joining ---------------------------------------------------

InvitePkt(n, k) == Head(chan[<<k, n>>])

Rejected(n, k, type) ==
    [src |-> n, dst |-> k,
     pkt |-> [BlankPkt EXCEPT !.type = "GP_INVITE_RESPONSE_REJECT", !.code = type]]

InviteResponseSent(n, k) ==
    /\ Len(chan'[<<n, k>>]) = Len(chan[<<n, k>>]) + 1
    /\ chan'[<<n, k>>][Len(chan'[<<n, k>>])].type = "GP_INVITE_RESPONSE"

HasCallback(n, name, arg) == \E i \in 1 .. Len(cb[n]) : cb[n][i].name = name /\ cb[n][i].arg = arg

\* The password a request carries is the group's password.
PasswordEquals(c, passwd) ==
    passwd = SubSeq(c.shared_state.passwd, 1, c.shared_state.passwd_len)

\* C8: in a password-protected group an INVITE_REQUEST gets INVITE_RESPONSE
\* only if its password equals the group's; with any other password (the
\* group not full, the nick free) the member sends INVITE_RESPONSE_REJECT
\* with GJ_INVALID_PASSWORD, no INVITE_RESPONSE, and deletes the peer; the
\* joiner that gets the reject while not connected fires
\* rejected(GJ_INVALID_PASSWORD) and is CS_FAILED.
C8_PasswordGate ==
    /\ [][\A n \in Nodes : \A k \in Nodes \ {n} :
            (RecvInviteRequest(n, k) /\ chat[n].shared_state.passwd_len > 0) =>
               /\ InviteResponseSent(n, k) =>
                     PasswordEquals(chat[n], InvitePkt(n, k).passwd)
               /\ ( /\ ~PasswordEquals(chat[n], InvitePkt(n, k).passwd)
                    /\ chat[n].connection_state = "CS_CONNECTED"
                    /\ get_gc_confirmed_numpeers(St(n)) < chat[n].shared_state.maxpeers
                    /\ get_nick_peernumber(St(n), InvitePkt(n, k).nick) = "" ) =>
                     /\ Rejected(n, k, "GJ_INVALID_PASSWORD") \in lossy'
                     /\ ~InviteResponseSent(n, k)
                     /\ ~peers'[n][k].present]_vars
    /\ [][\A l \in lossy :
            ( /\ RecvInviteResponseReject(l)
              /\ l.pkt.code = "GJ_INVALID_PASSWORD"
              /\ chat[l.dst].connection_state # "CS_CONNECTED" ) =>
               /\ chat'[l.dst].connection_state = "CS_FAILED"
               /\ cb'[l.dst] = Append(cb[l.dst], CB("rejected", "GJ_INVALID_PASSWORD", 0))]_vars

\* C10: a peer is marked confirmed, and an INVITE_REQUEST is answered with
\* INVITE_RESPONSE, only while the receiver's confirmed peers (self
\* included) number less than shared_state.maxpeers; a connected member
\* whose group is full answers an invite with GJ_GROUP_FULL and deletes
\* the peer.
C10_MaxPeersCap ==
    [][\A n \in Nodes : \A k \in Nodes \ {n} :
          /\ (~peers[n][k].confirmed /\ peers'[n][k].confirmed) =>
                get_gc_confirmed_numpeers(St(n)) < chat[n].shared_state.maxpeers
          /\ RecvInviteRequest(n, k) =>
                /\ InviteResponseSent(n, k) =>
                      get_gc_confirmed_numpeers(St(n)) < chat[n].shared_state.maxpeers
                /\ ( /\ get_gc_confirmed_numpeers(St(n)) >= chat[n].shared_state.maxpeers
                     /\ chat[n].connection_state = "CS_CONNECTED"
                     /\ chat[n].shared_state.version # 0 ) =>
                      /\ Rejected(n, k, "GJ_GROUP_FULL") \in lossy'
                      /\ ~InviteResponseSent(n, k)
                      /\ ~peers'[n][k].present]_vars

\* A full group has turned the joiner away, and the joiner knows.
C10_Witness ==
    /\ HasCallback("J", "rejected", "GJ_GROUP_FULL")
    /\ chat["J"].connection_state = "CS_FAILED"
    /\ ~peers["F"]["J"].present
    /\ get_gc_confirmed_numpeers(St("F")) >= chat["F"].shared_state.maxpeers

\* ---- claims about the moderator list ---------------------------------------

Synced(c) ==
    \/ c.role = "GR_FOUNDER"
    \/ c.connection_state = "CS_CONNECTED" /\ c.shared_state.version > 0

ModListStep(n) ==
    \/ \E add_mod \in BOOLEAN : n = "F" /\ SetModerator(n, "J", add_mod)
    \/ \E k \in Nodes \ {n} : RecvBroadcast(n, k)
    \/ \E k \in Nodes \ {n} : RecvModList(n, k)

\* C4: at the founder and at a synced peer, when founder_gc_set_moderator,
\* an inbound SET_MOD or an inbound MOD_LIST has run, whether it succeeded
\* or failed, shared_state.mod_list_hash is the hash of the moderator list.
C4_ModListHashInvariant ==
    [][\A n \in Nodes :
          (ModListStep(n) /\ Synced(chat[n])) =>
             chat'[n].shared_state.mod_list_hash
                = mod_list_make_hash(chat'[n].mod_list)]_vars

\* ---- the join under fair delivery -------------------------------------------

MaxLiveOps == 1

\* A joiner with the group's password and a free nick.
LiveJoinInit ==
    \E maxpeers \in 1 .. 2, passwd \in {<<>>, <<1>>} :
        Handshaked(maxpeers, passwd, "j", passwd, MaxLiveOps)

Handle(n, k) ==
    \/ RecvHsResponseAck(n, k)
    \/ RecvInviteRequest(n, k)
    \/ RecvInviteResponse(n, k)
    \/ RecvSyncRequest(n, k)
    \/ RecvSharedState(n, k)
    \/ RecvModList(n, k)
    \/ RecvSyncResponse(n, k)
    \/ RecvPeerInfoRequest(n, k)
    \/ RecvPeerInfoResponse(n, k)
    \/ RecvBroadcast(n, k)
    \/ Refuse(n, k)

HandleLossy(n) ==
    \E l \in lossy : l.dst = n /\ (RecvPing(l) \/ RecvInviteResponseReject(l))

\* Every lossless packet is handed over in the end, a connected chat keeps
\* pinging from do_gc, and of the lossy packets sent again and again some
\* get through.
JoinFairness ==
    \A n \in Nodes :
        /\ \A k \in Nodes \ {n} : WF_vars(Handle(n, k))
        /\ SF_vars(HandleLossy(n))
        /\ WF_vars(PingGroup(n))

SpecJoinLive == LiveJoinInit /\ [][JoinNext]_vars /\ JoinFairness

CountCallback(n, name, arg) ==
    Cardinality({i \in 1 .. Len(cb[n]) : cb[n][i].name = name /\ cb[n][i].arg = arg})

\* J's INVITE_REQUEST, with the group's password and a nick nobody has, is
\* on its way to the connected member F, and nothing has disturbed the join.
JoinStart ==
    /\ ops = MaxLiveOps
    /\ chat["F"].connection_state = "CS_CONNECTED"
    /\ chat["J"].connection_state = "CS_CONNECTING"
    /\ peers["J"]["F"].handshaked
    /\ \E i \in 1 .. Len(chan[<<"J", "F">>]) :
          /\ chan[<<"J", "F">>][i].type = "GP_INVITE_REQUEST"
          /\ PasswordEquals(chat["F"], chan[<<"J", "F">>][i].passwd)
          /\ get_nick_peernumber(St("F"), chan[<<"J", "F">>][i].nick) = ""

Joined ==
    /\ chat["J"].connection_state = "CS_CONNECTED"
    /\ CountCallback("J", "self_join", "") >= 1
    /\ peers["F"]["J"].confirmed
    /\ CountCallback("F", "peer_join", "J") = 1
    /\ get_gc_confirmed_numpeers(St("F")) = 2

\* The join was cut short: the joiner's password is no longer the group's, or
\* one of the two has deleted the other after a timeout.
Interrupted ==
    \/ ~PasswdAccepted(chat["F"], chat["J"].shared_state.passwd)
    \/ ~peers["F"]["J"].present
    \/ ~peers["J"]["F"].present

\* The member has no room for one more confirmed peer.
GroupFull ==
    /\ ~peers["F"]["J"].confirmed
    /\ get_gc_confirmed_numpeers(St("F")) >= chat["F"].shared_state.maxpeers

\* Since the join started the founder has changed the shared state, or a
\* peer has timed out.
Disturbed == ops < MaxLiveOps

\* C2 as stated: the join of a joiner with the right password and a free
\* nick completes whenever nothing disturbs it.
C2_JoinAlwaysCompletes == JoinStart ~> (Joined \/ Disturbed)

\* C2: the joiner becomes connected with self_join fired, and the member
\* marks it confirmed with peer_join fired once, its confirmed-peer count
\* one up, unless the member's group is full or becomes full before the
\* joiner is confirmed; peer_join never fires twice for the joiner.
C2_JoinCompletesUnlessFull ==
    /\ [](CountCallback("F", "peer_join", "J") <= 1)
    /\ JoinStart ~> (Joined \/ GroupFull \/ Interrupted)

\* The join has completed undisturbed.
C2_Witness ==
    /\ Joined
    /\ ~Disturbed
    /\ peers["J"]["F"].confirmed

\* C3: in the end every chat that is connected holds the founder's shared
\* state, with a signature that verifies.
C3_PeersConverge ==
    <>[](\A n \in Nodes :
            chat[n].connection_state = "CS_CONNECTED" =>
               /\ chat[n].shared_state = chat["F"].shared_state
               /\ crypto_sign_verify_detached(chat[n].shared_state_sig,
                                              chat[n].shared_state))

\* ---------------------------------------------------------------------------
\* Part III.  The peer table of one connected chat.
\*
\* group is chat->group[] together with the public key of chat->gcc[]; entry
\* 1 is peernumber 0, the chat's own peer.  The chat is CS_CONNECTED, it is
\* the founder's, it has no password, no moderator and no sanction, and the
\* packets it handles come from handshaked peers.
\* ---------------------------------------------------------------------------

PeerKeys == {"A", "B"}

SelfKey == "S"

\* The values random_int() draws a peer id from.
MaxPeerId == 3

PeerIds == 0 .. MaxPeerId

TableNicks == {"a", "b", "c"}

TableRoles == {"GR_FOUNDER", "GR_MODERATOR", "GR_USER", "GR_OBSERVER"}

\* The values of shared_state.maxpeers: a group that one confirmed peer
\* fills, and one with room for two.
TableMaxPeers == {2, 3}

\* The slot peer_add makes: memset(0), role GR_INVALID, the key of its
\* GC_Connection; the peer id is still 0.
NewPeer(public_key) ==
    [public_key |-> public_key, peer_id |-> 0, nick |-> "", role |-> "GR_INVALID",
     confirmed |-> FALSE]

Peernumbers(g) == 0 .. (Len(g) - 1)

\* chat->group[peernumber]
PeerAt(g, peernumber) == g[peernumber + 1]

get_peernum_of_enc_pk(g, public_key) ==
    IF \E i \in Peernumbers(g) : PeerAt(g, i).public_key = public_key
    THEN CHOOSE i \in Peernumbers(g) :
            /\ PeerAt(g, i).public_key = public_key
            /\ \A j \in Peernumbers(g) : PeerAt(g, j).public_key = public_key => i <= j
    ELSE -1

get_peernumber_of_peer_id(g, peer_id) ==
    IF \E i \in Peernumbers(g) : PeerAt(g, i).peer_id = peer_id
    THEN CHOOSE i \in Peernumbers(g) :
            /\ PeerAt(g, i).peer_id = peer_id
            /\ \A j \in Peernumbers(g) : PeerAt(g, j).peer_id = peer_id => i <= j
    ELSE -1

\* The ids the loop of get_new_peer_id can end with.
get_new_peer_id_AnyId(g) == PeerIds

get_new_peer_id(g) == {new_id \in PeerIds : get_peernumber_of_peer_id(g, new_id) = -1}

\* The peernumber of the first peer with this nick, -1 if there is none or
\* the nick is empty.
table_get_nick_peernumber(g, nick) ==
    IF nick = "" THEN -1
    ELSE IF \E i \in Peernumbers(g) : PeerAt(g, i).nick = nick
         THEN CHOOSE i \in Peernumbers(g) :
                 /\ PeerAt(g, i).nick = nick
                 /\ \A j \in Peernumbers(g) : PeerAt(g, j).nick = nick => i <= j
         ELSE -1

table_get_gc_confirmed_numpeers(g) ==
    1 + Cardinality({i \in Peernumbers(g) : i > 0 /\ PeerAt(g, i).confirmed})

\* A deletion that cuts the table short without moving the last peer.
table_gc_peer_delete_DropLast(g, peernumber) == SubSeq(g, 1, Len(g) - 1)

\* The last peer takes the place of the deleted one.
table_gc_peer_delete(g, peernumber) ==
    LET last == Len(g) - 1
        moved == IF last # peernumber
                 THEN [g EXCEPT ![peernumber + 1] = g[last + 1]]
                 ELSE g
    IN  SubSeq(moved, 1, last)

\* With no moderator and no sanction only the founder's key may be founder
\* and only users are valid otherwise.
table_validate_gc_peer_role(g, peernumber) ==
    LET p == PeerAt(g, peernumber)
    IN  CASE p.role = "GR_FOUNDER" -> IF p.public_key = SelfKey THEN 0 ELSE -1
          [] p.role = "GR_MODERATOR" -> -1
          [] p.role = "GR_USER" -> 0
          [] p.role = "GR_OBSERVER" -> IF peernumber # 0 THEN -1 ELSE 0
          [] OTHER -> -1

\* The outcomes of a call: the table after it and its return value.
Outcome(g, r) == [group |-> g, ret |-> r]

\* peer_add: -2 for a key already in the table, else a new last slot with
\* a fresh id.
table_peer_add(g, public_key) ==
    IF get_peernum_of_enc_pk(g, public_key) # -1
    THEN {Outcome(g, -2)}
    ELSE LET g1 == Append(g, NewPeer(public_key))
         IN  {Outcome([g1 EXCEPT ![Len(g1)].peer_id = new_id], Len(g))
                : new_id \in get_new_peer_id(g1)}

\* peer_update without the duplicate-nick check.
table_peer_update_NoNickCheck(g, peer, peernumber) ==
    IF peer.nick = "" THEN {Outcome(g, -1)}
    ELSE LET g1 == [g EXCEPT ![peernumber + 1] =
                        [public_key |-> g[peernumber + 1].public_key,
                         peer_id |-> 0, nick |-> peer.nick, role |-> peer.role,
                         confirmed |-> g[peernumber + 1].confirmed]]
         IN  {Outcome([g1 EXCEPT ![peernumber + 1].peer_id = new_id], peernumber)
                : new_id \in get_new_peer_id(g1)}

\* peer_update: the unpacked peer (peer_id 0 after memset) replaces the
\* slot, which then gets a fresh id; a nick another peer holds deletes the
\* peer.
table_peer_update(g, peer, peernumber) ==
    LET nick_num == table_get_nick_peernumber(g, peer.nick)
    IN  IF peer.nick = "" THEN {Outcome(g, -1)}
        ELSE IF nick_num # -1 /\ nick_num # peernumber
        THEN {Outcome(table_gc_peer_delete(g, peernumber), -1)}
        ELSE LET g1 == [g EXCEPT ![peernumber + 1] =
                            [public_key |-> g[peernumber + 1].public_key,
                             peer_id |-> 0, nick |-> peer.nick, role |-> peer.role,
                             confirmed |-> g[peernumber + 1].confirmed]]
             IN  {Outcome([g1 EXCEPT ![peernumber + 1].peer_id = new_id], peernumber)
                    : new_id \in get_new_peer_id(g1)}

\* handle_gc_peer_info_response of a chat that is connected and has no
\* password.
table_handle_gc_peer_info_response(g, maxpeers, peernumber, peer) ==
    IF ~PeerAt(g, peernumber).confirmed
       /\ table_get_gc_confirmed_numpeers(g) >= maxpeers
    THEN {Outcome(g, -1)}
    ELSE UNION {IF o.ret = -1 THEN {o}
                ELSE IF table_validate_gc_peer_role(o.group, peernumber) = -1
                THEN {Outcome(table_gc_peer_delete(o.group, peernumber), -1)}
                ELSE {Outcome([o.group EXCEPT ![peernumber + 1].confirmed = TRUE], 0)}
                  : o \in table_peer_update(g, peer, peernumber)}

\* handle_gc_invite_request up to its answer: a full group or a nick that
\* another peer holds deletes the requester.
table_handle_gc_invite_request(g, maxpeers, peernumber, nick) ==
    LET peer_number_by_nick == table_get_nick_peernumber(g, nick)
    IN  IF nick = "" THEN Outcome(g, -1)
        ELSE IF table_get_gc_confirmed_numpeers(g) >= maxpeers
        THEN Outcome(table_gc_peer_delete(g, peernumber), -1)
        ELSE IF peer_number_by_nick # -1 /\ peer_number_by_nick # peernumber
        THEN Outcome(table_gc_peer_delete(g, peernumber), -1)
        ELSE Outcome(g, 0)

\* handle_bc_nick as handle_gc_broadcast calls it: a sender that is not
\* confirmed is not heard; an empty or taken nick deletes the sender.
table_handle_bc_nick(g, peernumber, nick) ==
    IF ~PeerAt(g, peernumber).confirmed THEN Outcome(g, -1)
    ELSE IF nick = "" \/ table_get_nick_peernumber(g, nick) # -1
    THEN Outcome(table_gc_peer_delete(g, peernumber), 0)
    ELSE Outcome([g EXCEPT ![peernumber + 1].nick = nick], 0)

gc_set_self_nick(g, nick) ==
    IF nick = "" THEN Outcome(g, -3)
    ELSE IF table_get_nick_peernumber(g, nick) # -1 THEN Outcome(g, -4)
    ELSE Outcome([g EXCEPT ![1].nick = nick], 0)

\* The variables of the two-node group, out of use.
GroupIdle ==
    /\ chat = <<>>
    /\ peers = <<>>
    /\ chan = <<>>
    /\ lossy = {}
    /\ cb = <<>>
    /\ ops = 0

\* The table changes by one of the outcomes of a call.
Becomes(outcomes, name, peernumber, nick) ==
    /\ \E o \in outcomes : group' = o.group /\ ret' = o.ret
    /\ call' = [name |-> name, peernumber |-> peernumber, nick |-> nick]
    /\ UNCHANGED <<tvars, gvars, gc, announces, gc_announces, unix_time, packed>>

\* A handshake request or a sync response names a key: peer_add.
PeerAdd(public_key) ==
    /\ Len(group) <= Cardinality(PeerKeys)
    /\ Becomes(table_peer_add(group, public_key), "peer_add", -1, "")

PeerInfoResponse(peernumber, nick, role) ==
    /\ peernumber \in Peernumbers(group) \ {0}
    /\ Becomes(table_handle_gc_peer_info_response(group, gc.maxpeers, peernumber,
                                                   [nick |-> nick, role |-> role]),
               "handle_gc_peer_info_response", peernumber, nick)

InviteRequest(peernumber, nick) ==
    /\ peernumber \in Peernumbers(group) \ {0}
    /\ Becomes({table_handle_gc_invite_request(group, gc.maxpeers, peernumber, nick)},
               "handle_gc_invite_request", peernumber, nick)

BcNick(peernumber, nick) ==
    /\ peernumber \in Peernumbers(group) \ {0}
    /\ Becomes({table_handle_bc_nick(group, peernumber, nick)},
               "handle_bc_nick", peernumber, nick)

SetSelfNick(nick) ==
    /\ nick \in TableNicks \cup {""}
    /\ Becomes({gc_set_self_nick(group, nick)}, "gc_set_self_nick", 0, nick)

\* A peer leaves or times out: gc_peer_delete.
PeerDelete(peernumber) ==
    /\ peernumber \in Peernumbers(group) \ {0}
    /\ Becomes({Outcome(table_gc_peer_delete(group, peernumber), 0)},
               "gc_peer_delete", peernumber, "")

\* create_new_group: peer_add of the own key into the empty table, then
\* the own nick and the founder role.
PeersInit ==
    /\ TransportIdle
    /\ GroupIdle
    /\ ret = 0
    /\ call = [name |-> "create_new_group", peernumber |-> 0, nick |-> ""]
    /\ announces = <<>> /\ gc_announces = <<>> /\ unix_time = 0 /\ packed = <<>>
    /\ \E maxpeers \in TableMaxPeers : gc = [maxpeers |-> maxpeers]
    /\ \E nick \in TableNicks, o \in table_peer_add(<<>>, SelfKey) :
          group = [o.group EXCEPT ![1].nick = nick, ![1].role = "GR_FOUNDER"]

PeersNext ==
    \/ \E public_key \in PeerKeys \cup {SelfKey} : PeerAdd(public_key)
    \/ \E peernumber \in 1 .. Cardinality(PeerKeys) :
          \/ \E nick \in TableNicks \cup {""}, role \in TableRoles :
                PeerInfoResponse(peernumber, nick, role)
          \/ \E nick \in TableNicks \cup {""} : InviteRequest(peernumber, nick)
          \/ \E nick \in TableNicks \cup {""} : BcNick(peernumber, nick)
          \/ PeerDelete(peernumber)
    \/ \E nick \in TableNicks \cup {""} : SetSelfNick(nick)

SpecPeers == PeersInit /\ [][PeersNext]_vars

\* ---- claims about the peer table ------------------------------------------

\* The peer with this key is in the table.
InTable(g, public_key) == get_peernum_of_enc_pk(g, public_key) # -1

\* The entry of a key that is in the table.
EntryOf(g, public_key) == PeerAt(g, get_peernum_of_enc_pk(g, public_key))

C12_NicksUnique ==
    \A i \in Peernumbers(group) : \A j \in Peernumbers(group) :
        (i # j /\ PeerAt(group, i).nick # "") =>
           PeerAt(group, i).nick # PeerAt(group, j).nick

\* gc_set_self_nick has just refused a nick that a confirmed peer holds.
C12_Witness ==
    /\ call.name = "gc_set_self_nick"
    /\ ret = -4
    /\ \E i \in Peernumbers(group) :
          i > 0 /\ PeerAt(group, i).confirmed /\ PeerAt(group, i).nick # ""

\* The nick is held by a peer other than peernumber.
NickHeldByOther(g, peernumber, nick) ==
    /\ table_get_nick_peernumber(g, nick) # -1
    /\ table_get_nick_peernumber(g, nick) # peernumber

\* The sender is deleted, the call fails, and every other peer is still in
\* the table as it was.
OffenderDeleted(peernumber) ==
    /\ ret' = -1
    /\ ~InTable(group', PeerAt(group, peernumber).public_key)
    /\ Len(group') = Len(group) - 1
    /\ \A i \in Peernumbers(group) \ {peernumber} :
          /\ InTable(group', PeerAt(group, i).public_key)
          /\ EntryOf(group', PeerAt(group, i).public_key) = PeerAt(group, i)

\* The step handles a PEER_INFO_RESPONSE whose nick another peer holds.
DuplicateNickResponse ==
    /\ call'.name = "handle_gc_peer_info_response"
    /\ NickHeldByOther(group, call'.peernumber, call'.nick)

\* C13 as stated: every PEER_INFO_RESPONSE with a nick another peer holds
\* deletes its sender and leaves the other peers as they were.
C13_DuplicateNickDeletesSender ==
    [][DuplicateNickResponse => OffenderDeleted(call'.peernumber)]_vars

\* C13: a PEER_INFO_RESPONSE with a nick another peer holds, from a peer
\* that is confirmed or to a group that is not full, deletes its sender
\* and fails, and the other peers stay as they were.
C13_DuplicateNickDeletesSenderUnlessFull ==
    [][( /\ DuplicateNickResponse
         /\ \/ PeerAt(group, call'.peernumber).confirmed
            \/ table_get_gc_confirmed_numpeers(group) < gc.maxpeers ) =>
          OffenderDeleted(call'.peernumber)]_vars

\* A PEER_INFO_RESPONSE with the nick of a confirmed peer has just failed
\* and its sender is gone, while the holder is still in the table.
C13_Witness ==
    /\ call.name = "handle_gc_peer_info_response"
    /\ ret = -1
    /\ Len(group) = Cardinality(PeerKeys)
    /\ \E i \in Peernumbers(group) :
          /\ i > 0
          /\ PeerAt(group, i).confirmed
          /\ PeerAt(group, i).nick = call.nick


\* The peers other than the own one that are in the table before and after
\* the step.
StayingPeers == {i \in Peernumbers(group) \ {0} : InTable(group', PeerAt(group, i).public_key)}

\* C39: the peer id a peer got when it was put into the table is permanent:
\* a peer that is in the table before and after a step, be it a
\* PEER_INFO_RESPONSE of this peer or the deletion of another one, has the
\* same peer id after it, which is so the id of its peer_join and of its
\* peer_exit.
C39_PeerIdPermanent ==
    [][\A i \in StayingPeers :
          EntryOf(group', PeerAt(group, i).public_key).peer_id = PeerAt(group, i).peer_id]_vars

\* ==========================================================================
\* Part IV. The calls of the application on one chat: gc_group_add,
\* gc_set_peer_role, gc_set_topic, gc_send_message.  The chat is the record
\* gc, its peer table is group, the packets it has handed to the lossless
\* transport for the peer with key k are chan[k], in the order of the calls
\* of send_lossless_group_packet.
\* ==========================================================================

\* A uint32_t as its two 16-bit halves, high half first.
HalfWord == 65536
U32(n) == [hi |-> n \div HalfWord, lo |-> n % HalfWord]
UINT32_MAX == [hi |-> HalfWord - 1, lo |-> HalfWord - 1]

\* ++ on a uint32_t.
Increment(v) ==
    IF v.lo = HalfWord - 1 THEN [hi |-> (v.hi + 1) % HalfWord, lo |-> 0]
    ELSE [v EXCEPT !.lo = @ + 1]

MAX_GC_PACKET_SIZE == 65507
GC_BROADCAST_ENC_HEADER_SIZE == 13
MAX_GC_MESSAGE_SIZE == 1372
MAX_GC_TOPIC_SIZE == 512
MAX_GC_GROUP_NAME_SIZE == 48
MaxCalls == 1

\* enum GROUP_ROLE, in its order.
RoleNum(role) ==
    CASE role = "GR_FOUNDER" -> 0
      [] role = "GR_MODERATOR" -> 1
      [] role = "GR_USER" -> 2
      [] role = "GR_OBSERVER" -> 3
      [] OTHER -> 4

\* The chat, its peer table and its outgoing packets while a call runs; r is
\* the value the call returns.
ApiSt == [c |-> gc, g |-> group, ch |-> chan, r |-> 0]

Returns(s, r) == [s EXCEPT !.r = r]

NoTopic ==
    [topic |-> "", length |-> 0, public_sig_key |-> "", version |-> U32(0)]

NoCreds == [version |-> U32(0), signer |-> ""]

\* A slot of GC_Session.chats after memset to 0.
NoChat ==
    [connection_state |-> "CS_NONE",
     shared_state |-> [version |-> U32(0), founder_public_key |-> "",
                       group_name_len |-> 0,
                       privacy_state |-> "", mod_list_hash |-> <<>>],
     shared_state_sig |-> <<>>,
     mod_list |-> <<>>,
     sanctions |-> <<>>,
     sanctions_creds |-> NoCreds,
     topic_info |-> NoTopic,
     topic_sig |-> <<>>]

NoChan == [k \in PeerKeys |-> <<>>]

ConfirmedPeers(g) == {i \in Peernumbers(g) \ {0} : PeerAt(g, i).confirmed}

api_send_gc_lossless_packet_all_peers(s, pkt) ==
    [s EXCEPT !.ch = [k \in PeerKeys |->
        IF \E i \in ConfirmedPeers(s.g) : PeerAt(s.g, i).public_key = k
        THEN Append(s.ch[k], pkt) ELSE s.ch[k]]]

send_gc_broadcast_message(s, data, length, bc_type) ==
    IF length + GC_BROADCAST_ENC_HEADER_SIZE > MAX_GC_PACKET_SIZE
    THEN Returns(s, -1)
    ELSE Returns(api_send_gc_lossless_packet_all_peers(s,
             [type |-> "GP_BROADCAST", bc_type |-> bc_type, data |-> data,
              length |-> length]), 0)

\* group_moderation.c: the sanctions list and its credentials.  An entry is
\* an observer sanction on target signed by signer; every change of the list
\* makes new credentials, one version higher, signed by the own key.
sanctions_list_make_creds(c) ==
    [c EXCEPT !.sanctions_creds =
        [version |-> Increment(c.sanctions_creds.version),
         signer |-> SelfKey]]

sanctions_list_make_entry(c, target) ==
    sanctions_list_make_creds(
        [c EXCEPT !.sanctions = Append(@, [target |-> target,
                                           signer |-> SelfKey])])

sanctions_list_is_observer(c, target) ==
    \E i \in 1 .. Len(c.sanctions) : c.sanctions[i].target = target

sanctions_list_remove_observer(c, target) ==
    sanctions_list_make_creds(
        [c EXCEPT !.sanctions = SelectSeq(@, LAMBDA e : e.target # target)])

SignedBy(c, public_sig_key) ==
    {i \in 1 .. Len(c.sanctions) : c.sanctions[i].signer = public_sig_key}

sanctions_list_replace_sig(c, public_sig_key) ==
    IF SignedBy(c, public_sig_key) = {} THEN c
    ELSE sanctions_list_make_creds(
             [c EXCEPT !.sanctions = [i \in 1 .. Len(@) |->
                 IF @[i].signer = public_sig_key
                 THEN [@[i] EXCEPT !.signer = SelfKey] ELSE @[i]]])

broadcast_gc_sanctions_list(s) ==
    Returns(api_send_gc_lossless_packet_all_peers(s,
        [type |-> "GP_SANCTIONS_LIST", sanctions |-> s.c.sanctions,
         creds |-> s.c.sanctions_creds]), 0)

update_gc_sanctions_list(s, public_sig_key) ==
    LET num_replaced == Cardinality(SignedBy(s.c, public_sig_key))
        t == [s EXCEPT !.c = sanctions_list_replace_sig(@, public_sig_key)]
    IN  IF num_replaced = 0 THEN Returns(t, 0)
        ELSE Returns(broadcast_gc_sanctions_list(t), num_replaced)

broadcast_gc_topic(s) ==
    Returns(api_send_gc_lossless_packet_all_peers(s,
        [type |-> "GP_TOPIC", topic_info |-> s.c.topic_info,
         topic_sig |-> s.c.topic_sig]), 0)

TopicFaults == {"none", "pack", "sign", "send"}

\* gc_set_topic.  fault names the step that fails in this call, if one
\* does: pack_gc_topic_info, crypto_sign_detached or broadcast_gc_topic.
gc_set_topic_KeepVersion(s, topic, length, fault) ==
    IF length > MAX_GC_TOPIC_SIZE THEN Returns(s, -1)
    ELSE IF RoleNum(PeerAt(s.g, 0).role) > RoleNum("GR_MODERATOR")
    THEN Returns(s, -2)
    ELSE LET info == [topic |-> IF length = 0 THEN "" ELSE topic,
                      length |-> length,
                      public_sig_key |-> SelfKey,
                      version |-> s.c.topic_info.version]
             t == [s EXCEPT !.c.topic_info = info,
                            !.c.topic_sig = [signer |-> SelfKey, over |-> info]]
         IN  CASE fault \in {"pack", "sign"} -> Returns(s, -3)
               [] fault = "send" -> Returns(s, -4)
               [] OTHER -> Returns(broadcast_gc_topic(t), 0)

gc_set_topic(s, topic, length, fault) ==
    IF length > MAX_GC_TOPIC_SIZE THEN Returns(s, -1)
    ELSE IF RoleNum(PeerAt(s.g, 0).role) > RoleNum("GR_MODERATOR")
    THEN Returns(s, -2)
    ELSE LET info == [topic |-> IF length = 0 THEN "" ELSE topic,
                      length |-> length,
                      public_sig_key |-> SelfKey,
                      version |-> IF s.c.topic_info.version # UINT32_MAX
                                  THEN Increment(s.c.topic_info.version)
                                  ELSE s.c.topic_info.version]
             t == [s EXCEPT !.c.topic_info = info,
                            !.c.topic_sig = [signer |-> SelfKey, over |-> info]]
         IN  CASE fault \in {"pack", "sign"} -> Returns(s, -3)
               [] fault = "send" -> Returns(s, -4)
               [] OTHER -> Returns(broadcast_gc_topic(t), 0)

update_gc_topic(s, public_sig_key) ==
    IF public_sig_key # s.c.topic_info.public_sig_key THEN Returns(s, 0)
    ELSE LET t == gc_set_topic(s, s.c.topic_info.topic,
                               s.c.topic_info.length, "none")
         IN  Returns(t, IF t.r # 0 THEN -1 ELSE 0)

api_sign_gc_shared_state(s) ==
    IF PeerAt(s.g, 0).role # "GR_FOUNDER" THEN Returns(s, -1)
    ELSE LET ss == [s.c.shared_state EXCEPT !.version =
                        IF @ # UINT32_MAX THEN Increment(@) ELSE @]
         IN  Returns([s EXCEPT !.c.shared_state = ss,
                               !.c.shared_state_sig = crypto_sign_detached(ss)],
                     0)

api_broadcast_gc_shared_state(s) ==
    Returns(api_send_gc_lossless_packet_all_peers(s,
        [type |-> "GP_SHARED_STATE", shared_state |-> s.c.shared_state,
         sig |-> s.c.shared_state_sig]), 0)

api_send_gc_set_mod(s, peernumber, add_mod) ==
    send_gc_broadcast_message(s,
        [add_mod |-> add_mod, public_sig_key |-> PeerAt(s.g, peernumber).public_key],
        1, "GM_SET_MOD")

\* The tail of founder_gc_set_moderator, common to adding and removing.
SignAndAnnounceMod(s, peernumber, add_mod) ==
    LET hashed == [s EXCEPT !.c.shared_state.mod_list_hash =
                       mod_list_make_hash(s.c.mod_list)]
        signed == api_sign_gc_shared_state(hashed)
    IN  IF signed.r = -1 THEN Returns(s, -1)
        ELSE api_send_gc_set_mod(api_broadcast_gc_shared_state(signed),
                                 peernumber, add_mod)

api_founder_gc_set_moderator_SetModFirst(s, peernumber, add_mod) ==
    LET key == PeerAt(s.g, peernumber).public_key
    IN  IF PeerAt(s.g, 0).role # "GR_FOUNDER" THEN Returns(s, -1)
        ELSE IF add_mod
        THEN SignAndAnnounceMod(
                 [s EXCEPT !.c.mod_list = mod_list_add_entry(@, key)],
                 peernumber, add_mod)
        ELSE IF ~mod_list_index_of_sig_pk(s.c.mod_list, key)
        THEN Returns(s, -1)
        ELSE LET removed == api_send_gc_set_mod(
                                [s EXCEPT !.c.mod_list =
                                     mod_list_remove_entry(@, key)],
                                peernumber, add_mod)
                 hashed == [removed EXCEPT !.c.shared_state.mod_list_hash =
                                mod_list_make_hash(removed.c.mod_list)]
                 shared == api_broadcast_gc_shared_state(
                               api_sign_gc_shared_state(hashed))
                 sanctions == update_gc_sanctions_list(shared, key)
             IN  update_gc_topic(sanctions, key)

api_founder_gc_set_moderator(s, peernumber, add_mod) ==
    LET key == PeerAt(s.g, peernumber).public_key
    IN  IF PeerAt(s.g, 0).role # "GR_FOUNDER" THEN Returns(s, -1)
        ELSE IF add_mod
        THEN SignAndAnnounceMod(
                 [s EXCEPT !.c.mod_list = mod_list_add_entry(@, key)],
                 peernumber, add_mod)
        ELSE IF ~mod_list_index_of_sig_pk(s.c.mod_list, key)
        THEN Returns(s, -1)
        ELSE LET removed == [s EXCEPT !.c.mod_list =
                                 mod_list_remove_entry(@, key)]
                 sanctions == update_gc_sanctions_list(removed, key)
                 topic == update_gc_topic(sanctions, key)
             IN  IF sanctions.r = -1 THEN sanctions
                 ELSE IF topic.r = -1 THEN topic
                 ELSE SignAndAnnounceMod(topic, peernumber, add_mod)

send_gc_set_observer(s, peernumber, sanction_data, add_obs) ==
    send_gc_broadcast_message(s,
        [add_obs |-> add_obs, public_key |-> PeerAt(s.g, peernumber).public_key,
         sanction_data |-> sanction_data],
        1, "GM_SET_OBSERVER")

mod_gc_set_observer(s, peernumber, add_obs) ==
    LET key == PeerAt(s.g, peernumber).public_key
    IN  IF RoleNum(PeerAt(s.g, 0).role) >= RoleNum("GR_USER")
        THEN Returns(s, -1)
        ELSE IF add_obs
        THEN LET t == [s EXCEPT !.c = sanctions_list_make_entry(@, key)]
             IN  send_gc_set_observer(t, peernumber,
                     <<t.c.sanctions[Len(t.c.sanctions)], t.c.sanctions_creds>>,
                     add_obs)
        ELSE IF ~sanctions_list_is_observer(s.c, key) THEN Returns(s, -1)
        ELSE LET t == [s EXCEPT !.c = sanctions_list_remove_observer(@, key)]
             IN  send_gc_set_observer(t, peernumber, <<t.c.sanctions_creds>>,
                                      add_obs)

SetRole(s, peernumber, role) == [s EXCEPT !.g[peernumber + 1].role = role]

ApiRoles == {"GR_FOUNDER", "GR_MODERATOR", "GR_USER", "GR_OBSERVER", "GR_INVALID"}

\* gc_set_peer_role.  The moderation callback changes nothing of the chat.
gc_set_peer_role_NoPermissionCheck(s, peer_id, role) ==
    LET peernumber == get_peernumber_of_peer_id(s.g, peer_id)
        self == PeerAt(s.g, 0).role
        old == PeerAt(s.g, peernumber).role
        unmod == api_founder_gc_set_moderator(s, peernumber, FALSE)
        unobs == mod_gc_set_observer(s, peernumber, FALSE)
        Then(t, next(_)) == IF t.r = -1 THEN Returns(t, -5) ELSE next(t)
        Done(t) == Returns(SetRole(t, peernumber, role), 0)
        Mod(t) == Then(api_founder_gc_set_moderator(t, peernumber, TRUE), Done)
        Obs(t) == Then(mod_gc_set_observer(t, peernumber, TRUE), Done)
        User(t) == SetRole(t, peernumber, "GR_USER")
    IN  IF role \notin {"GR_MODERATOR", "GR_USER", "GR_OBSERVER"}
        THEN Returns(s, -4)
        ELSE IF peernumber = 0 \/ peernumber = -1 THEN Returns(s, -2)
        ELSE IF ~PeerAt(s.g, peernumber).confirmed THEN Returns(s, -2)
        ELSE IF old = "GR_FOUNDER" THEN Returns(s, -3)
        ELSE IF old = role THEN Returns(s, -4)
        ELSE CASE old = "GR_MODERATOR" ->
                    Then(unmod, LAMBDA t :
                        IF role = "GR_OBSERVER" THEN Obs(User(t))
                        ELSE Done(User(t)))
               [] old = "GR_OBSERVER" ->
                    Then(unobs, LAMBDA t :
                        IF role = "GR_MODERATOR" THEN Mod(User(t))
                        ELSE Done(User(t)))
               [] old = "GR_USER" ->
                    IF role = "GR_MODERATOR" THEN Mod(s) ELSE Obs(s)
               [] OTHER -> Returns(s, -4)

gc_set_peer_role(s, peer_id, role) ==
    LET peernumber == get_peernumber_of_peer_id(s.g, peer_id)
        self == PeerAt(s.g, 0).role
        old == PeerAt(s.g, peernumber).role
        unmod == api_founder_gc_set_moderator(s, peernumber, FALSE)
        unobs == mod_gc_set_observer(s, peernumber, FALSE)
        Then(t, next(_)) == IF t.r = -1 THEN Returns(t, -5) ELSE next(t)
        Done(t) == Returns(SetRole(t, peernumber, role), 0)
        Mod(t) == Then(api_founder_gc_set_moderator(t, peernumber, TRUE), Done)
        Obs(t) == Then(mod_gc_set_observer(t, peernumber, TRUE), Done)
        User(t) == SetRole(t, peernumber, "GR_USER")
    IN  IF role \notin {"GR_MODERATOR", "GR_USER", "GR_OBSERVER"}
        THEN Returns(s, -4)
        ELSE IF peernumber = 0 \/ peernumber = -1 THEN Returns(s, -2)
        ELSE IF ~PeerAt(s.g, peernumber).confirmed THEN Returns(s, -2)
        ELSE IF RoleNum(self) >= RoleNum("GR_USER") THEN Returns(s, -3)
        ELSE IF old = "GR_FOUNDER" THEN Returns(s, -3)
        ELSE IF /\ self # "GR_FOUNDER"
                /\ \/ role = "GR_MODERATOR"
                   \/ RoleNum(old) <= RoleNum("GR_MODERATOR")
        THEN Returns(s, -3)
        ELSE IF old = role THEN Returns(s, -4)
        ELSE CASE old = "GR_MODERATOR" ->
                    Then(unmod, LAMBDA t :
                        IF role = "GR_OBSERVER" THEN Obs(User(t))
                        ELSE Done(User(t)))
               [] old = "GR_OBSERVER" ->
                    Then(unobs, LAMBDA t :
                        IF role = "GR_MODERATOR" THEN Mod(User(t))
                        ELSE Done(User(t)))
               [] old = "GR_USER" ->
                    IF role = "GR_MODERATOR" THEN Mod(s) ELSE Obs(s)
               [] OTHER -> Returns(s, -4)

MessageTypes == {"GC_MESSAGE_TYPE_NORMAL", "GC_MESSAGE_TYPE_ACTION", "other"}

gc_send_message_RoleFirst(s, message, length, type) ==
    IF RoleNum(PeerAt(s.g, 0).role) >= RoleNum("GR_OBSERVER")
    THEN Returns(s, -4)
    ELSE IF length > MAX_GC_MESSAGE_SIZE THEN Returns(s, -1)
    ELSE IF message = "NULL" \/ length = 0 THEN Returns(s, -2)
    ELSE IF type \notin {"GC_MESSAGE_TYPE_NORMAL", "GC_MESSAGE_TYPE_ACTION"}
    THEN Returns(s, -3)
    ELSE LET packet_type == IF type = "GC_MESSAGE_TYPE_NORMAL"
                            THEN "GM_PLAIN_MESSAGE" ELSE "GM_ACTION_MESSAGE"
             t == send_gc_broadcast_message(s, message, length, packet_type)
         IN  IF t.r = -1 THEN Returns(s, -5) ELSE Returns(t, 0)

gc_send_message(s, message, length, type) ==
    IF length > MAX_GC_MESSAGE_SIZE THEN Returns(s, -1)
    ELSE IF message = "NULL" \/ length = 0 THEN Returns(s, -2)
    ELSE IF type \notin {"GC_MESSAGE_TYPE_NORMAL", "GC_MESSAGE_TYPE_ACTION"}
    THEN Returns(s, -3)
    ELSE IF RoleNum(PeerAt(s.g, 0).role) >= RoleNum("GR_OBSERVER")
    THEN Returns(s, -4)
    ELSE LET packet_type == IF type = "GC_MESSAGE_TYPE_NORMAL"
                            THEN "GM_PLAIN_MESSAGE" ELSE "GM_ACTION_MESSAGE"
             t == send_gc_broadcast_message(s, message, length, packet_type)
         IN  IF t.r = -1 THEN Returns(s, -5) ELSE Returns(t, 0)

PrivacyStates == {"GI_PUBLIC", "GI_PRIVATE", "GI_INVALID"}
NameLengths == {0, 1, MAX_GC_GROUP_NAME_SIZE, MAX_GC_GROUP_NAME_SIZE + 1}
PeerInfos == {"NULL", "no nick", "bad status", "valid"}

is_self_peer_info_valid(peer_info) == peer_info = "valid"

\* create_new_group for the founder in the slot get_new_group_index returns,
\* a slot that is all zero.  The outcomes are those of peer_add: one for each
\* peer id it can draw.
create_new_group(s, nick) ==
    {[s EXCEPT !.c.connection_state = "CS_DISCONNECTED",
               !.g = [o.group EXCEPT ![1].nick = nick,
                                     ![1].role = "GR_FOUNDER",
                                     ![1].confirmed = TRUE],
               !.r = 0] : o \in table_peer_add(<<>>, SelfKey)}

init_gc_shared_state(s, privacy_state, name_length) ==
    api_sign_gc_shared_state(
        [s EXCEPT !.c.shared_state.founder_public_key = SelfKey,
                  !.c.shared_state.group_name_len = name_length,
                  !.c.shared_state.privacy_state = privacy_state])

init_gc_sanctions_creds(s) ==
    Returns([s EXCEPT !.c = sanctions_list_make_creds(@)], 0)

\* group_delete: the slot is all zero again.
group_delete(s) == [s EXCEPT !.c = NoChat, !.g = <<>>]

\* gc_group_add.  fault is the step of gc_set_topic that fails, if one does;
\* friend_ok is whether m_add_friend_gc succeeds.  A call that succeeds
\* returns the group number, 0 for the one slot of the model.
gc_group_add_NoTopic(s, privacy_state, group_name, group_name_length, peer_info, fault, friend_ok) ==
    IF group_name_length > MAX_GC_GROUP_NAME_SIZE THEN {Returns(s, -1)}
    ELSE IF group_name_length = 0 \/ group_name = "NULL" THEN {Returns(s, -2)}
    ELSE IF ~is_self_peer_info_valid(peer_info) THEN {Returns(s, -6)}
    ELSE IF privacy_state = "GI_INVALID" THEN {Returns(s, -3)}
    ELSE {LET shared == init_gc_shared_state(created, privacy_state,
                                             group_name_length)
              creds == init_gc_sanctions_creds(shared)
              connected == [creds EXCEPT !.c.connection_state = "CS_CONNECTED"]
          IN  IF shared.r = -1 THEN Returns(group_delete(s), -5)
              ELSE IF privacy_state = "GI_PUBLIC" /\ ~friend_ok
              THEN Returns(group_delete(s), -6)
              ELSE Returns(connected, 0)
          : created \in create_new_group(s, "a")}

gc_group_add(s, privacy_state, group_name, group_name_length, peer_info, fault, friend_ok) ==
    IF group_name_length > MAX_GC_GROUP_NAME_SIZE THEN {Returns(s, -1)}
    ELSE IF group_name_length = 0 \/ group_name = "NULL" THEN {Returns(s, -2)}
    ELSE IF ~is_self_peer_info_valid(peer_info) THEN {Returns(s, -6)}
    ELSE IF privacy_state = "GI_INVALID" THEN {Returns(s, -3)}
    ELSE {LET shared == init_gc_shared_state(created, privacy_state,
                                             group_name_length)
              creds == init_gc_sanctions_creds(shared)
              topic == gc_set_topic(creds, " ", 1, fault)
              connected == [topic EXCEPT !.c.connection_state = "CS_CONNECTED"]
          IN  IF shared.r = -1 THEN Returns(group_delete(s), -5)
              ELSE IF topic.r # 0 THEN Returns(group_delete(s), -5)
              ELSE IF privacy_state = "GI_PUBLIC" /\ ~friend_ok
              THEN Returns(group_delete(s), -6)
              ELSE Returns(connected, 0)
          : created \in create_new_group(s, "a")}

\* --- the calls as actions ---------------------------------------------------

ApiCall(outcomes, name, args) ==
    /\ ops < MaxCalls
    /\ \E t \in outcomes :
          /\ gc' = t.c
          /\ group' = t.g
          /\ chan' = t.ch
          /\ ret' = t.r
    /\ ops' = ops + 1
    /\ call' = [name |-> name, args |-> args]
    /\ UNCHANGED <<tvars, chat, peers, lossy, cb, announces, gc_announces, unix_time, packed>>

GroupAdd(privacy_state, group_name, group_name_length, peer_info, fault, friend_ok) ==
    /\ gc.connection_state = "CS_NONE"
    /\ ApiCall(gc_group_add(ApiSt, privacy_state, group_name,
                            group_name_length, peer_info, fault, friend_ok),
               "gc_group_add",
               [privacy_state |-> privacy_state,
                group_name |-> group_name,
                group_name_length |-> group_name_length,
                peer_info |-> peer_info])

SetPeerRole(peer_id, role) ==
    /\ gc.connection_state = "CS_CONNECTED"
    /\ ApiCall({gc_set_peer_role(ApiSt, peer_id, role)}, "gc_set_peer_role",
               [peer_id |-> peer_id, role |-> role])

TopicLengths == {0, 1, MAX_GC_TOPIC_SIZE, MAX_GC_TOPIC_SIZE + 1}

SetTopic(topic, length, fault) ==
    /\ gc.connection_state = "CS_CONNECTED"
    /\ ApiCall({gc_set_topic(ApiSt, topic, length, fault)}, "gc_set_topic",
               [topic |-> topic, length |-> length, fault |-> fault])

MessageLengths == {0, 1, MAX_GC_MESSAGE_SIZE, MAX_GC_MESSAGE_SIZE + 1}

SendMessage(message, length, type) ==
    /\ gc.connection_state = "CS_CONNECTED"
    /\ ApiCall({gc_send_message(ApiSt, message, length, type)},
               "gc_send_message",
               [message |-> message, length |-> length, type |-> type])

\* --- the chats the calls start from -----------------------------------------

Versions == {U32(1), UINT32_MAX}

KeyOfRole(roles, role) == {k \in DOMAIN roles : roles[k] = role}

\* A connected chat of three peers, the own peer first, as the join and the
\* moderation packets of Part II leave it: the moderator list holds the keys
\* of the moderators, every observer has a sanction signed by the founder or
\* by a moderator, the topic was set by the founder or by a moderator.  The
\* shared state and the topic have the same version, 1 or the greatest.
ConnectedChat(roles, confirmedB, signer, setter, version) ==
    LET mods == SelectSeq(<<SelfKey, "A", "B">>,
                          LAMBDA k : roles[k] = "GR_MODERATOR")
        founder == CHOOSE k \in DOMAIN roles : roles[k] = "GR_FOUNDER"
        ss == [version |-> version, founder_public_key |-> founder,
               group_name_len |-> 1, privacy_state |-> "GI_PRIVATE",
               mod_list_hash |-> mod_list_make_hash(mods)]
        info == [topic |-> "t", length |-> 1, public_sig_key |-> setter,
                 version |-> version]
        Entry(k, id, conf) == [public_key |-> k, peer_id |-> id, nick |-> k,
                               role |-> roles[k], confirmed |-> conf]
    IN  /\ gc = [connection_state |-> "CS_CONNECTED",
                 shared_state |-> ss,
                 shared_state_sig |-> crypto_sign_detached(ss),
                 mod_list |-> mods,
                 sanctions |-> [i \in 1 .. Len(SelectSeq(<<SelfKey, "A", "B">>,
                                    LAMBDA k : roles[k] = "GR_OBSERVER")) |->
                                [target |-> SelectSeq(<<SelfKey, "A", "B">>,
                                    LAMBDA k : roles[k] = "GR_OBSERVER")[i],
                                 signer |-> signer]],
                 sanctions_creds |-> [version |-> U32(1), signer |-> signer],
                 topic_info |-> info,
                 topic_sig |-> [signer |-> setter, over |-> info]]
        /\ group = <<Entry(SelfKey, 0, TRUE), Entry("A", 1, TRUE),
                     Entry("B", 2, confirmedB)>>

RoleMaps ==
    {roles \in [{SelfKey, "A", "B"} -> TableRoles] :
        /\ Cardinality(KeyOfRole(roles, "GR_FOUNDER")) = 1
        /\ roles["B"] # "GR_FOUNDER"}

ApiInit ==
    /\ TransportIdle
    /\ chat = <<>> /\ peers = <<>> /\ lossy = {} /\ cb = <<>> /\ ops = 0
    /\ chan = NoChan
    /\ ret = 0
    /\ call = <<>>
    /\ announces = <<>> /\ gc_announces = <<>> /\ unix_time = 0 /\ packed = <<>>
    /\ \/ gc = NoChat /\ group = <<>>
       \/ \E roles \in RoleMaps, confirmedB \in BOOLEAN, version \in Versions :
          \E signer \in KeyOfRole(roles, "GR_FOUNDER")
                            \cup KeyOfRole(roles, "GR_MODERATOR"),
             setter \in KeyOfRole(roles, "GR_FOUNDER")
                            \cup KeyOfRole(roles, "GR_MODERATOR") :
             ConnectedChat(roles, confirmedB, signer, setter, version)

ApiNext ==
    \/ \E privacy_state \in PrivacyStates, group_name \in {"NULL", "name"},
          group_name_length \in NameLengths, peer_info \in PeerInfos,
          fault \in TopicFaults, friend_ok \in BOOLEAN :
          GroupAdd(privacy_state, group_name, group_name_length, peer_info,
                   fault, friend_ok)
    \/ \E peer_id \in PeerIds, role \in ApiRoles : SetPeerRole(peer_id, role)
    \/ \E topic \in {"u"}, length \in TopicLengths, fault \in TopicFaults :
          SetTopic(topic, length, fault)
    \/ \E message \in {"NULL", "m"}, length \in MessageLengths,
          type \in MessageTypes : SendMessage(message, length, type)

SpecApi == ApiInit /\ [][ApiNext]_vars

\* --- claims on the calls ----------------------------------------------------

\* w is the number after v: v + 1 without overflow.
OneMore(v, w) == v # UINT32_MAX /\ w = Increment(v)

\* The packets a step hands to the transport for the peer with key k.
Enqueued(k) == SubSeq(chan'[k], Len(chan[k]) + 1, Len(chan'[k]))

PacketKind(pkt) == IF pkt.type = "GP_BROADCAST" THEN pkt.bc_type ELSE pkt.type

Kinds(pkts) == [i \in 1 .. Len(pkts) |-> PacketKind(pkts[i])]

\* The step is a call of gc_set_peer_role by the founder that takes the
\* moderator role from the confirmed peer at peernumber and succeeds.
RemovesModerator(peernumber) ==
    /\ call'.name = "gc_set_peer_role"
    /\ ret' = 0
    /\ PeerAt(group, 0).role = "GR_FOUNDER"
    /\ peernumber = get_peernumber_of_peer_id(group, call'.args.peer_id)
    /\ peernumber > 0
    /\ PeerAt(group, peernumber).role = "GR_MODERATOR"

Optional(cond, kind) == IF cond THEN <<kind>> ELSE <<>>

SignedSanction(key) == SignedBy(gc, key) # {}

WasSetter(key) == gc.topic_info.public_sig_key = key

\* The packets of the removal: those of the step without the GM_SET_OBSERVER
\* that follows them when the new role is observer.
RemovalPackets(k) ==
    SelectSeq(Enqueued(k), LAMBDA pkt : PacketKind(pkt) # "GM_SET_OBSERVER")

SharedStateVersions(k) ==
    {Enqueued(k)[i].shared_state.version :
        i \in {j \in 1 .. Len(Enqueued(k)) :
                  Enqueued(k)[j].type = "GP_SHARED_STATE"}}

SetModBodies(k) ==
    {Enqueued(k)[i].data :
        i \in {j \in 1 .. Len(Enqueued(k)) :
                  PacketKind(Enqueued(k)[j]) = "GM_SET_MOD"}}

\* C14 (as claimed): when the founder removes moderator M, each confirmed
\* peer is sent SET_MOD(remove, M), then the moderator list, then the shared
\* state with its version one higher, then the sanctions list if M had
\* signed a sanction, then the topic if M had set it.
C14_RemovalOrder ==
    [][\A peernumber \in Peernumbers(group) : RemovesModerator(peernumber) =>
          \A i \in ConfirmedPeers(group) :
             LET k == PeerAt(group, i).public_key
                 M == PeerAt(group, peernumber).public_key
             IN  /\ Kinds(RemovalPackets(k)) =
                        <<"GM_SET_MOD", "GP_MOD_LIST", "GP_SHARED_STATE">>
                        \o Optional(SignedSanction(M), "GP_SANCTIONS_LIST")
                        \o Optional(WasSetter(M), "GP_TOPIC")
                 /\ \E w \in SharedStateVersions(k) :
                        /\ SharedStateVersions(k) = {w}
                        /\ OneMore(gc.shared_state.version, w)
                 /\ SetModBodies(k) = {[add_mod |-> FALSE, public_sig_key |-> M]}
      ]_vars

\* C14 (amended): when the founder removes moderator M, each confirmed peer
\* is sent the re-signed sanctions list if M had signed a sanction, then the
\* re-signed topic if M had set it, then the shared state with its version
\* one higher (the same when it is UINT32_MAX already), then SET_MOD(remove,
\* M); no moderator list is sent.
C14_RemovalOrderSharedStateBeforeSetMod ==
    [][\A peernumber \in Peernumbers(group) : RemovesModerator(peernumber) =>
          \A i \in ConfirmedPeers(group) :
             LET k == PeerAt(group, i).public_key
                 M == PeerAt(group, peernumber).public_key
             IN  /\ Kinds(RemovalPackets(k)) =
                        Optional(SignedSanction(M), "GP_SANCTIONS_LIST")
                        \o Optional(WasSetter(M), "GP_TOPIC")
                        \o <<"GP_SHARED_STATE", "GM_SET_MOD">>
                 /\ SharedStateVersions(k) =
                        {IF gc.shared_state.version = UINT32_MAX
                         THEN UINT32_MAX
                         ELSE Increment(gc.shared_state.version)}
                 /\ SetModBodies(k) = {[add_mod |-> FALSE, public_sig_key |-> M]}
                 /\ M \notin SeqToSet(gc'.mod_list)
                 /\ gc'.shared_state.mod_list_hash =
                        mod_list_make_hash(gc'.mod_list)
      ]_vars

\* A moderator that had signed a sanction and set the topic was removed: the
\* peer A has been sent all four packets.
C14_Witness ==
    /\ call # <<>>
    /\ call.name = "gc_set_peer_role"
    /\ ret = 0
    /\ ops = 1
    /\ Len(chan["A"]) = 4
    /\ PacketKind(chan["A"][4]) = "GM_SET_MOD"
    /\ ~chan["A"][4].data.add_mod

LastCall(name) == call # <<>> /\ call.name = name

\* C15: after a successful gc_group_add the chat is connected, its shared
\* state has version 1, its moderator list is empty, its topic is the one
\* byte " " with version 1 set by the own key, the own peer is the founder at
\* index 0 and the only peer of the table.
C15_GroupAddPostcondition ==
    (LastCall("gc_group_add") /\ ret >= 0) =>
        /\ call.args.group_name_length \in 1 .. MAX_GC_GROUP_NAME_SIZE
        /\ call.args.privacy_state \in {"GI_PUBLIC", "GI_PRIVATE"}
        /\ call.args.peer_info = "valid"
        /\ gc.connection_state = "CS_CONNECTED"
        /\ gc.shared_state.version = U32(1)
        /\ gc.shared_state.founder_public_key = SelfKey
        /\ gc.mod_list = <<>>
        /\ gc.topic_info.topic = " "
        /\ gc.topic_info.length = 1
        /\ gc.topic_info.version = U32(1)
        /\ gc.topic_info.public_sig_key = SelfKey
        /\ gc.topic_sig = [signer |-> SelfKey, over |-> gc.topic_info]
        /\ Len(group) = 1
        /\ PeerAt(group, 0).public_key = SelfKey
        /\ PeerAt(group, 0).role = "GR_FOUNDER"

\* A public chat with a name of the greatest length was created.
C15_Witness ==
    /\ LastCall("gc_group_add")
    /\ ret = 0
    /\ call.args.privacy_state = "GI_PUBLIC"
    /\ call.args.group_name_length = MAX_GC_GROUP_NAME_SIZE
    /\ gc.connection_state = "CS_CONNECTED"

\* What gc_set_peer_role is asked to leave alone when it refuses.
RolesOf(g) == [i \in 1 .. Len(g) |-> g[i].role]

NothingChanged ==
    /\ RolesOf(group') = RolesOf(group)
    /\ gc'.mod_list = gc.mod_list
    /\ gc'.sanctions = gc.sanctions
    /\ gc'.sanctions_creds = gc.sanctions_creds
    /\ gc'.shared_state = gc.shared_state
    /\ chan' = chan

\* The caller may not do what the call asks: its role is user or observer,
\* or the target is the founder, or the caller is a moderator and the call
\* would make or unmake a moderator.
NotPermitted(peernumber, role) ==
    LET self == PeerAt(group, 0).role
        old == PeerAt(group, peernumber).role
    IN  \/ self \in {"GR_USER", "GR_OBSERVER"}
        \/ old = "GR_FOUNDER"
        \/ self = "GR_MODERATOR" /\ (role = "GR_MODERATOR" \/ old = "GR_MODERATOR")

SetPeerRoleStep == call'.name = "gc_set_peer_role"

TargetOf(peer_id) == get_peernumber_of_peer_id(group, peer_id)

\* C16 (as claimed): gc_set_peer_role returns -3 and changes no role,
\* moderator list or sanctions list whenever the caller is a user or an
\* observer, the target is the founder, or the caller is a moderator and the
\* requested or the current role of the target is moderator; only a founder
\* changes the moderator list.
C16_RefusesWithoutPermission ==
    [][SetPeerRoleStep =>
          /\ \A peernumber \in Peernumbers(group) :
                (/\ peernumber = IF TargetOf(call'.args.peer_id) = -1
                                 THEN 0 ELSE TargetOf(call'.args.peer_id)
                 /\ NotPermitted(peernumber, call'.args.role))
                => ret' = -3 /\ NothingChanged
          /\ gc'.mod_list # gc.mod_list => PeerAt(group, 0).role = "GR_FOUNDER"
      ]_vars

\* C16 (amended): the same for a call that asks for the role moderator, user
\* or observer for a confirmed peer other than the caller; a call with
\* another role or another target returns -4 or -2 and changes nothing
\* either.
C16_RefusesWithoutPermissionValidTarget ==
    [][SetPeerRoleStep =>
          /\ \A peernumber \in Peernumbers(group) \ {0} :
                (/\ peernumber = TargetOf(call'.args.peer_id)
                 /\ PeerAt(group, peernumber).confirmed
                 /\ call'.args.role \in {"GR_MODERATOR", "GR_USER", "GR_OBSERVER"}
                 /\ NotPermitted(peernumber, call'.args.role))
                => ret' = -3 /\ NothingChanged
          /\ ret' \in {-2, -3, -4} => NothingChanged
          /\ gc'.mod_list # gc.mod_list => PeerAt(group, 0).role = "GR_FOUNDER"
      ]_vars

\* A moderator asked for the moderator role for a confirmed user and was
\* refused.
C16_Witness ==
    /\ LastCall("gc_set_peer_role")
    /\ ret = -3
    /\ PeerAt(group, 0).role = "GR_MODERATOR"
    /\ call.args.role = "GR_MODERATOR"
    /\ \E peernumber \in Peernumbers(group) \ {0} :
          /\ PeerAt(group, peernumber).peer_id = call.args.peer_id
          /\ PeerAt(group, peernumber).confirmed
          /\ PeerAt(group, peernumber).role = "GR_USER"

SetTopicStep == call'.name = "gc_set_topic"

TopicUnchanged ==
    /\ gc'.topic_info = gc.topic_info
    /\ gc'.topic_sig = gc.topic_sig
    /\ chan' = chan

\* What every call of gc_set_topic does whatever the topic version: the
\* refusals in their order, a failing call leaving the topic as it was, a
\* successful call recording the caller as setter of the new topic.
SetTopicOutcome ==
    LET self == PeerAt(group, 0).role
    IN  /\ call'.args.length > MAX_GC_TOPIC_SIZE => ret' = -1
        /\ (/\ call'.args.length <= MAX_GC_TOPIC_SIZE
            /\ self \in {"GR_USER", "GR_OBSERVER"}) => ret' = -2
        /\ ret' \in {-1, -2, -3, -4, 0}
        /\ ret' # 0 => TopicUnchanged
        /\ ret' = 0 =>
              /\ gc'.topic_info.public_sig_key = SelfKey
              /\ gc'.topic_info.length = call'.args.length
              /\ gc'.topic_sig = [signer |-> SelfKey, over |-> gc'.topic_info]

\* C17 (as claimed): gc_set_topic returns -1 for a topic that is too long
\* and -2 for a caller that is a user or an observer, a failing call leaves
\* topic, length, setter, version and signature as they were, and a
\* successful call makes the topic version one higher and the caller the
\* setter.
C17_SetTopic ==
    [][SetTopicStep =>
          /\ SetTopicOutcome
          /\ ret' = 0 => OneMore(gc.topic_info.version, gc'.topic_info.version)
      ]_vars

\* C17 (amended): the same, but a successful call leaves a topic version
\* that is UINT32_MAX already as it is.
C17_SetTopicVersionSaturates ==
    [][SetTopicStep =>
          /\ SetTopicOutcome
          /\ ret' = 0 =>
                IF gc.topic_info.version = UINT32_MAX
                THEN gc'.topic_info.version = UINT32_MAX
                ELSE OneMore(gc.topic_info.version, gc'.topic_info.version)
      ]_vars

\* A moderator set a topic of the greatest length on a chat whose topic had
\* version 1.
C17_Witness ==
    /\ LastCall("gc_set_topic")
    /\ ret = 0
    /\ PeerAt(group, 0).role = "GR_MODERATOR"
    /\ gc.topic_info.length = MAX_GC_TOPIC_SIZE
    /\ gc.topic_info.version = U32(2)
    /\ gc.topic_info.public_sig_key = SelfKey

SendMessageStep == call'.name = "gc_send_message"

\* The value the claimed precedence gives for a call of gc_send_message.
PrecedenceOfSendMessage(self, message, length, type) ==
    CASE length > MAX_GC_MESSAGE_SIZE -> -1
      [] message = "NULL" \/ length = 0 -> -2
      [] type \notin {"GC_MESSAGE_TYPE_NORMAL", "GC_MESSAGE_TYPE_ACTION"} -> -3
      [] self = "GR_OBSERVER" -> -4
      [] length + GC_BROADCAST_ENC_HEADER_SIZE > MAX_GC_PACKET_SIZE -> -5
      [] OTHER -> 0

\* C18: gc_send_message returns -1 for a message that is too long, else -2
\* for a NULL or empty message, else -3 for a type that is neither normal
\* nor action, else -4 for a caller that is an observer, else -5 if the send
\* fails, else 0; a failing call enqueues no packet to any peer.
C18_SendMessagePrecedence ==
    [][SendMessageStep =>
          /\ ret' = PrecedenceOfSendMessage(PeerAt(group, 0).role,
                        call'.args.message, call'.args.length, call'.args.type)
          /\ ret' # 0 => chan' = chan
          /\ ret' = 0 =>
                \A i \in ConfirmedPeers(group) :
                   LET pkts == Enqueued(PeerAt(group, i).public_key)
                   IN  /\ Len(pkts) = 1
                       /\ pkts[1].data = call'.args.message
                       /\ pkts[1].length = call'.args.length
          /\ gc' = gc /\ group' = group
      ]_vars

\* An observer sent a well-formed message of the greatest length and got -4;
\* nothing was enqueued.
C18_Witness ==
    /\ LastCall("gc_send_message")
    /\ ret = -4
    /\ PeerAt(group, 0).role = "GR_OBSERVER"
    /\ call.args.message # "NULL"
    /\ call.args.length = MAX_GC_MESSAGE_SIZE
    /\ call.args.type = "GC_MESSAGE_TYPE_ACTION"
    /\ chan = NoChan

\* ==========================================================================
\* Part V. Leaving a chat: gc_group_exit, do_gc, group_delete and the
\* packets that arrive for a chat of the session.  chat is GC_Session.chats
\* with num_chats = Len(chat); chan is the sequence of the packets the
\* session has sent.
\* ==========================================================================

MAX_GC_PART_MESSAGE_SIZE == 128
MaxExitSteps == 3
ChatHashes == {0, 5}
PartLengths == {0, MAX_GC_PART_MESSAGE_SIZE, MAX_GC_PART_MESSAGE_SIZE + 1}

\* A slot of GC_Session.chats after memset to 0.
ZeroSlot ==
    [connection_state |-> "CS_NONE", chat_id_hash |-> 0,
     self_public_key |-> <<>>, groupnumber |-> 0, gcc |-> <<>>]

\* gcc[0] is the own connection.
Conn(public_key, confirmed, unacked) ==
    [public_key |-> public_key, confirmed |-> confirmed, handshaked |-> TRUE,
     send_ary |-> unacked, recv_message_id |-> 0]

\* The session while a call runs: the slots, the packets sent and the value
\* returned.
Session == [chats |-> chat, net |-> chan, r |-> 0]

SlotAt(c, groupnumber) == c.chats[groupnumber + 1]

get_chat_by_hash(c, hash) ==
    LET found == {i \in 0 .. (Len(c.chats) - 1) :
                     SlotAt(c, i).chat_id_hash = hash}
    IN  IF found = {} THEN -1
        ELSE CHOOSE i \in found : \A j \in found : i <= j

exit_groupnumber_valid(c, groupnumber) ==
    /\ groupnumber >= 0
    /\ groupnumber < Len(c.chats)
    /\ SlotAt(c, groupnumber).connection_state # "CS_NONE"

\* sendpacket for every confirmed peer of the chat at index i, in the order
\* of gcc.
exit_send_gc_lossless_packet_all_peers(c, i, type) ==
    LET slot == SlotAt(c, i)
        to == SelectSeq(SubSeq(slot.gcc, 2, Len(slot.gcc)),
                        LAMBDA gconn : gconn.confirmed)
    IN  [c EXCEPT !.net = @ \o [n \in 1 .. Len(to) |->
              [chat_id_hash |-> slot.chat_id_hash, to |-> to[n].public_key,
               type |-> type]]]

send_gc_self_exit(c, i, length) ==
    IF length > MAX_GC_PART_MESSAGE_SIZE THEN [c EXCEPT !.r = -1]
    ELSE IF length + GC_BROADCAST_ENC_HEADER_SIZE > MAX_GC_PACKET_SIZE
    THEN [c EXCEPT !.r = -2]
    ELSE [exit_send_gc_lossless_packet_all_peers(c, i, "GM_PEER_EXIT")
             EXCEPT !.r = 0]

RECURSIVE TrimmedLen(_)
\* The number of slots left when the unused slots at the end are given up.
TrimmedLen(chats) ==
    IF chats = <<>> THEN 0
    ELSE IF chats[Len(chats)].connection_state # "CS_NONE" THEN Len(chats)
    ELSE TrimmedLen(SubSeq(chats, 1, Len(chats) - 1))

\* group_delete of the chat at index i: the slot chats[chat->groupnumber] is
\* set to zero and the list is cut after the last slot in use.
exit_group_delete_StateOnly(c, i) ==
    [c EXCEPT !.chats[SlotAt(c, i).groupnumber + 1].connection_state = "CS_NONE"]

exit_group_delete(c, i) ==
    LET zeroed == [c.chats EXCEPT ![SlotAt(c, i).groupnumber + 1] = ZeroSlot]
    IN  [c EXCEPT !.chats = SubSeq(zeroed, 1, TrimmedLen(zeroed))]

\* do_peer_connections at a tick where the retry interval of the unacked
\* packets has passed: each is sent again.
exit_do_peer_connections(c, i) ==
    LET slot == SlotAt(c, i)
        due == SelectSeq(SubSeq(slot.gcc, 2, Len(slot.gcc)),
                         LAMBDA gconn : gconn.send_ary # {})
    IN  [c EXCEPT !.net = @ \o [n \in 1 .. Len(due) |->
              [chat_id_hash |-> slot.chat_id_hash, to |-> due[n].public_key,
               type |-> "resend"]]]

RECURSIVE do_gc_from(_, _)
\* The loop of do_gc from index i on.  After group_delete the loop looks at
\* the same index once more (i-- and then ++i).
do_gc_from(c, i) ==
    IF i >= Len(c.chats) THEN c
    ELSE CASE SlotAt(c, i).connection_state = "CS_CONNECTED" ->
                do_gc_from(exit_do_peer_connections(c, i), i + 1)
           [] SlotAt(c, i).connection_state = "CS_CLOSING" ->
                do_gc_from(exit_group_delete(c, i), i)
           [] OTHER -> do_gc_from(c, i + 1)

do_gc(c) == do_gc_from(c, 0)

gc_group_exit(c, i, length) ==
    LET parted == send_gc_self_exit(c, i, length)
        closing == [parted EXCEPT !.chats[i + 1].connection_state = "CS_CLOSING"]
    IN  [do_gc(closing) EXCEPT !.r = parted.r]

\* --- packets that arrive ----------------------------------------------------

PacketTypes ==
    {"NET_PACKET_GC_LOSSLESS", "NET_PACKET_GC_LOSSY", "NET_PACKET_GC_HANDSHAKE"}

exit_get_peernum_of_enc_pk(slot, public_key) ==
    LET found == {n \in 0 .. (Len(slot.gcc) - 1) :
                     slot.gcc[n + 1].public_key = public_key}
    IN  IF found = {} THEN -1 ELSE CHOOSE n \in found : TRUE

\* A lossless packet with message id 1: the next one or a duplicate; both
\* are acknowledged.
exit_handle_gc_lossless_message(c, i, packet) ==
    LET slot == SlotAt(c, i)
        peernumber == exit_get_peernum_of_enc_pk(slot, packet.sender_pk)
        gconn == slot.gcc[peernumber + 1]
        acked == [c EXCEPT !.net = Append(@,
                     [chat_id_hash |-> slot.chat_id_hash,
                      to |-> packet.sender_pk, type |-> "GP_MESSAGE_ACK"])]
    IN  IF peernumber = -1 THEN [c EXCEPT !.r = -1]
        ELSE IF ~gconn.handshaked THEN [c EXCEPT !.r = -1]
        ELSE IF gconn.recv_message_id + 1 = 1
        THEN [acked EXCEPT !.chats[i + 1].gcc[peernumber + 1].recv_message_id = 1,
                           !.r = 0]
        ELSE [acked EXCEPT !.r = 0]

\* A lossy packet that is the ack of message id 1.
exit_handle_gc_lossy_message(c, i, packet) ==
    LET slot == SlotAt(c, i)
        peernumber == exit_get_peernum_of_enc_pk(slot, packet.sender_pk)
        gconn == slot.gcc[peernumber + 1]
    IN  IF peernumber = -1 THEN [c EXCEPT !.r = -1]
        ELSE IF ~gconn.handshaked THEN [c EXCEPT !.r = -1]
        ELSE IF 1 \notin gconn.send_ary THEN [c EXCEPT !.r = -1]
        ELSE [c EXCEPT !.chats[i + 1].gcc[peernumber + 1].send_ary = @ \ {1},
                       !.r = 0]

\* A handshake request.  It opens only with the secret key of the chat it
\* was made for; the peer it names is added to chats[chat->groupnumber] if
\* it is not there, and is answered.
exit_handle_gc_handshake_packet(c, i, packet) ==
    LET slot == SlotAt(c, i)
        target == SlotAt(c, slot.groupnumber)
        peernumber == exit_get_peernum_of_enc_pk(target, packet.sender_pk)
        answered == [c EXCEPT !.net = Append(@,
                        [chat_id_hash |-> target.chat_id_hash,
                         to |-> packet.sender_pk, type |-> "GH_RESPONSE"])]
    IN  IF packet.self_pk # slot.self_public_key THEN [c EXCEPT !.r = -1]
        ELSE IF peernumber # -1 THEN [answered EXCEPT !.r = peernumber]
        ELSE [answered EXCEPT
                 !.chats[slot.groupnumber + 1].gcc =
                     Append(@, Conn(packet.sender_pk, FALSE, {})),
                 !.r = Len(target.gcc)]

handle_gc_udp_packet(c, packet) ==
    LET i == get_chat_by_hash(c, packet.chat_id_hash)
    IN  IF i = -1 THEN [c EXCEPT !.r = -1]
        ELSE IF SlotAt(c, i).connection_state = "CS_FAILED"
        THEN [c EXCEPT !.r = -1]
        ELSE CASE packet.type = "NET_PACKET_GC_LOSSLESS" ->
                    exit_handle_gc_lossless_message(c, i, packet)
               [] packet.type = "NET_PACKET_GC_LOSSY" ->
                    exit_handle_gc_lossy_message(c, i, packet)
               [] packet.type = "NET_PACKET_GC_HANDSHAKE" ->
                    exit_handle_gc_handshake_packet(c, i, packet)
               [] OTHER -> [c EXCEPT !.r = -1]

\* --- actions ----------------------------------------------------------------

SessionStep(c, name, args) ==
    /\ ops' = ops + 1
    /\ chat' = c.chats
    /\ chan' = c.net
    /\ ret' = c.r
    /\ call' = [name |-> name, args |-> args]
    /\ UNCHANGED <<tvars, peers, lossy, cb, group, gc, announces, gc_announces, unix_time, packed>>

GroupExit(groupnumber, length) ==
    /\ ops < MaxExitSteps
    /\ exit_groupnumber_valid(Session, groupnumber)
    /\ SessionStep(gc_group_exit(Session, groupnumber, length), "gc_group_exit",
                   [groupnumber |-> groupnumber, length |-> length,
                    chat_id_hash |-> SlotAt(Session, groupnumber).chat_id_hash,
                    self_pk |-> SlotAt(Session, groupnumber).self_public_key])

Tick ==
    /\ ops < MaxExitSteps
    /\ SessionStep(do_gc(Session), "do_gc", <<>>)

\* A packet made for the chat with key self_pk arrives.
ReceivePacket(packet) ==
    /\ ops < MaxExitSteps
    /\ SessionStep(handle_gc_udp_packet(Session, packet),
                   "handle_gc_udp_packet", packet)

SelfKeyOf(hash) == <<"self", hash>>

\* A chat in use: connected or failed, with the confirmed peer A, perhaps
\* the peer B, perhaps a packet to A that is not acked yet.
LiveSlot(groupnumber, hash, state, withB, confirmedB, pending) ==
    [connection_state |-> state, chat_id_hash |-> hash,
     self_public_key |-> SelfKeyOf(hash), groupnumber |-> groupnumber,
     gcc |-> <<Conn(SelfKeyOf(hash), TRUE, {}),
               Conn("A", TRUE, IF pending THEN {1} ELSE {})>>
             \o IF withB THEN <<Conn("B", confirmedB, {})>> ELSE <<>>]

ExitInit ==
    /\ TransportIdle
    /\ peers = <<>> /\ lossy = {} /\ cb = <<>> /\ ops = 0
    /\ ApiIdle
    /\ chan = <<>>
    /\ \E hash \in ChatHashes, withB \in BOOLEAN, confirmedB \in BOOLEAN,
          pending \in BOOLEAN, state \in {"CS_CONNECTED", "CS_FAILED"} :
          LET first == LiveSlot(0, hash, "CS_CONNECTED", withB, confirmedB,
                                pending)
              other == CHOOSE h \in ChatHashes : h # hash
          IN  \/ chat = <<first>>
              \/ chat = <<first, LiveSlot(1, other, state, FALSE, FALSE, pending)>>

ExitNext ==
    \/ \E groupnumber \in {0, 1}, length \in PartLengths :
          GroupExit(groupnumber, length)
    \/ Tick
    \/ \E hash \in ChatHashes, type \in PacketTypes, sender_pk \in PeerKeys :
          ReceivePacket([chat_id_hash |-> hash, type |-> type,
                         sender_pk |-> sender_pk, self_pk |-> SelfKeyOf(hash)])

SpecExit == ExitInit /\ [][ExitNext]_vars

\* --- claims on leaving a chat -----------------------------------------------

GroupExitStep == call'.name = "gc_group_exit"

\* The slots in use that hold the chat with the key self_pk.
SlotsOf(chats, self_pk) ==
    {i \in 1 .. Len(chats) : /\ chats[i].self_public_key = self_pk
                             /\ chats[i].connection_state # "CS_NONE"}

Sent == SubSeq(chan', Len(chan) + 1, Len(chan'))

\* The part messages a step sends for the chat with the hash.
PartMessages(hash) ==
    SelectSeq(Sent, LAMBDA p : p.chat_id_hash = hash /\ p.type = "GM_PEER_EXIT")

ToConfirmed(slot) ==
    LET to == SelectSeq(SubSeq(slot.gcc, 2, Len(slot.gcc)),
                        LAMBDA gconn : gconn.confirmed)
    IN  [n \in 1 .. Len(to) |-> to[n].public_key]

Receivers(pkts) == [n \in 1 .. Len(pkts) |-> pkts[n].to]

\* A packet arrives that was made for a chat the session no longer has.
LatePacket ==
    /\ call'.name = "handle_gc_udp_packet"
    /\ SlotsOf(chat, call'.args.self_pk) = {}

Ignored == chat' = chat /\ chan' = chan /\ ret' = -1

\* C19 (as claimed): gc_group_exit leaves the chat in the state Closing;
\* the tick after it sends the part message to every confirmed peer and
\* deletes the chat; a packet that arrives for the chat after that changes
\* nothing.
C19_ExitClosesOnNextTick ==
    [][/\ GroupExitStep =>
             \A i \in SlotsOf(chat, call'.args.self_pk) :
                /\ i <= Len(chat')
                /\ chat'[i].connection_state = "CS_CLOSING"
                /\ PartMessages(call'.args.chat_id_hash) = <<>>
       /\ call'.name = "do_gc" =>
             \A i \in 1 .. Len(chat) :
                chat[i].connection_state = "CS_CLOSING" =>
                   /\ Receivers(PartMessages(chat[i].chat_id_hash)) =
                          ToConfirmed(chat[i])
                   /\ SlotsOf(chat', chat[i].self_public_key) = {}
       /\ LatePacket => Ignored
      ]_vars

\* C19 (amended): gc_group_exit with a part message of at most
\* MAX_GC_PART_MESSAGE_SIZE bytes sends the part message once to every
\* confirmed peer and deletes the chat before it returns, so that no call
\* leaves a chat in the state Closing; a packet that arrives for the chat
\* after that changes nothing.
C19_ExitDeletesInTheCall ==
    [][/\ GroupExitStep =>
             \A i \in SlotsOf(chat, call'.args.self_pk) :
                /\ SlotsOf(chat', call'.args.self_pk) = {}
                /\ call'.args.length <= MAX_GC_PART_MESSAGE_SIZE =>
                      /\ ret' = 0
                      /\ Receivers(PartMessages(call'.args.chat_id_hash)) =
                             ToConfirmed(chat[i])
       /\ \A i \in 1 .. Len(chat') :
             chat'[i].connection_state # "CS_CLOSING"
       /\ LatePacket => Ignored
      ]_vars

\* The first of two chats was left, its slot is zero, and an ack for it has
\* arrived and was ignored.
C19_Witness ==
    /\ LastCall("handle_gc_udp_packet")
    /\ call.args.type = "NET_PACKET_GC_LOSSY"
    /\ ret = -1
    /\ Len(chat) = 2
    /\ chat[1] = ZeroSlot
    /\ SlotsOf(chat, call.args.self_pk) = {}
    /\ \E n \in 1 .. Len(chan) :
          /\ chan[n].type = "GM_PEER_EXIT"
          /\ chan[n].chat_id_hash = call.args.chat_id_hash


\* ===========================================================================
\* Part VI. The announce store (group_announce.c)
\*
\* The store is a list of buckets, one for each chat id, the newest bucket
\* at the head.  A bucket holds a ring of MAX_GCA_SAVED_ANNOUNCES_PER_GC
\* announces and the number of announces it has received.  unix_time counts
\* the seconds since the store was made.  malloc is taken to succeed.
\* ===========================================================================

\* group_announce.h is not part of the sources; the capacity of a ring is the
\* one the specification gives.
MAX_GCA_SAVED_ANNOUNCES_PER_GC == 16

MaxAnnounceSteps == 2
MaxUnixTime == 2

NULL == "NULL"

AnnounceChatIds == {"chat1", "chat2"}
AnnounceKeys == {"pkA", "pkB"}
AnnounceNodes == {"node1", "node2"}
\* max_nodes is a uint8_t
MaxNodes == {0, 1, 2, MAX_GCA_SAVED_ANNOUNCES_PER_GC + 1}

\* A slot of a ring that add_gc_announce has not written yet.
Unwritten == [peer_public_key |-> "unwritten", node |-> "unwritten",
              timestamp |-> -1]

\* The position in the list of the first bucket of the chat id, 0 for NULL.
RECURSIVE get_announces_from(_, _, _)
get_announces_from(list, chat_id, n) ==
    IF n > Len(list) THEN 0
    ELSE IF list[n].chat_id = chat_id THEN n
    ELSE get_announces_from(list, chat_id, n + 1)

get_announces_by_chat_id(list, chat_id) == get_announces_from(list, chat_id, 1)

remove_announces(list, n) ==
    SubSeq(list, 1, n - 1) \o SubSeq(list, n + 1, Len(list))

\* do_gca that removes no bucket.
do_gca_KeepAll(list, limit) == list

\* do_gca with unix_time() - GC_ANNOUNCE_SAVING_TIMEOUT = limit.
do_gca(list, limit) ==
    LET Fresh(b) == ~(b.last_announce_received_timestamp <= limit)
    IN  SelectSeq(list, Fresh)

cleanup_gca(list, chat_id) ==
    IF chat_id = NULL THEN [list |-> list, r |-> FALSE]
    ELSE LET n == get_announces_by_chat_id(list, chat_id)
         IN  IF n # 0 THEN [list |-> remove_announces(list, n), r |-> TRUE]
             ELSE [list |-> list, r |-> FALSE]

\* The loop of get_gc_announces from ring position i, with the entries
\* written so far.
RECURSIVE get_gc_announces_from(_, _, _, _, _)
get_gc_announces_from(b, out, i, max_nodes, except_public_key) ==
    IF ~(i < b.index /\ i < MAX_GCA_SAVED_ANNOUNCES_PER_GC
                     /\ Len(out) < max_nodes)
    THEN out
    ELSE LET index == i % MAX_GCA_SAVED_ANNOUNCES_PER_GC
             entry == b.announces[index + 1]
             already_added ==
                 \E j \in 1 .. Len(out) :
                    out[j].peer_public_key = entry.peer_public_key
         IN  IF except_public_key = entry.peer_public_key
             THEN get_gc_announces_from(b, out, i + 1, max_nodes,
                                        except_public_key)
             ELSE IF already_added
             THEN get_gc_announces_from(b, out, i + 1, max_nodes,
                                        except_public_key)
             ELSE get_gc_announces_from(b, Append(out, entry), i + 1,
                                        max_nodes, except_public_key)

\* get_gc_announces without the test for the caller's own key.
RECURSIVE get_gc_announces_from_KeepOwn(_, _, _, _, _)
get_gc_announces_from_KeepOwn(b, out, i, max_nodes, except_public_key) ==
    IF ~(i < b.index /\ i < MAX_GCA_SAVED_ANNOUNCES_PER_GC
                     /\ Len(out) < max_nodes)
    THEN out
    ELSE LET entry == b.announces[(i % MAX_GCA_SAVED_ANNOUNCES_PER_GC) + 1]
         IN  IF \E j \in 1 .. Len(out) :
                   out[j].peer_public_key = entry.peer_public_key
             THEN get_gc_announces_from_KeepOwn(b, out, i + 1, max_nodes,
                                                except_public_key)
             ELSE get_gc_announces_from_KeepOwn(b, Append(out, entry), i + 1,
                                                max_nodes, except_public_key)

get_gc_announces_KeepOwn(list, buffer, max_nodes, chat_id, except_public_key) ==
    IF \/ buffer = NULL \/ chat_id = NULL \/ max_nodes = 0
       \/ except_public_key = NULL
    THEN [out |-> <<>>, r |-> -1]
    ELSE LET n == get_announces_by_chat_id(list, chat_id)
         IN  IF n = 0 THEN [out |-> <<>>, r |-> 0]
             ELSE LET out == get_gc_announces_from_KeepOwn(
                                 list[n], <<>>, 0, max_nodes,
                                 except_public_key)
                  IN  [out |-> out, r |-> Len(out)]

\* buffer is the caller's array or NULL; the result holds the entries written
\* to the array and the return value.
get_gc_announces(list, buffer, max_nodes, chat_id, except_public_key) ==
    IF \/ buffer = NULL \/ chat_id = NULL \/ max_nodes = 0
       \/ except_public_key = NULL
    THEN [out |-> <<>>, r |-> -1]
    ELSE LET n == get_announces_by_chat_id(list, chat_id)
         IN  IF n = 0 THEN [out |-> <<>>, r |-> 0]
             ELSE LET out == get_gc_announces_from(list[n], <<>>, 0,
                                                   max_nodes,
                                                   except_public_key)
                  IN  [out |-> out, r |-> Len(out)]

\* r is the entry written, NULL when an argument is missing.
add_gc_announce(list, node, chat_id, peer_id, now) ==
    IF node = NULL \/ chat_id = NULL \/ peer_id = NULL
    THEN [list |-> list, r |-> NULL]
    ELSE LET found == get_announces_by_chat_id(list, chat_id)
             created == [chat_id |-> chat_id,
                         index |-> 0,
                         announces |->
                             [k \in 1 .. MAX_GCA_SAVED_ANNOUNCES_PER_GC |->
                                 Unwritten],
                         last_announce_received_timestamp |-> -1]
             with == IF found = 0 THEN <<created>> \o list ELSE list
             n == IF found = 0 THEN 1 ELSE found
             index == with[n].index % MAX_GCA_SAVED_ANNOUNCES_PER_GC
             gc_peer_announce == [peer_public_key |-> peer_id,
                                  node |-> node,
                                  timestamp |-> now]
         IN  [list |->
                 [with EXCEPT
                     ![n].last_announce_received_timestamp = now,
                     ![n].announces[index + 1] = gc_peer_announce,
                     ![n].index = @ + 1],
              r |-> gc_peer_announce]

add_self_announce(list, chat_id, node, now) ==
    add_gc_announce(list, node, chat_id, NULL, now)

\* --- actions ----------------------------------------------------------------

StoreStep(list, out, r, name, args) ==
    /\ ops' = ops + 1
    /\ announces' = list
    /\ gc_announces' = out
    /\ ret' = r
    /\ call' = [name |-> name, args |-> args]
    /\ UNCHANGED <<tvars, chat, peers, chan, lossy, cb, group, gc, unix_time, packed>>

AddAnnounce(node, chat_id, peer_id) ==
    /\ ops < MaxAnnounceSteps
    /\ LET o == add_gc_announce(announces, node, chat_id, peer_id, unix_time)
       IN  StoreStep(o.list, gc_announces, o.r, "add_gc_announce",
                     [node |-> node, chat_id |-> chat_id,
                      peer_id |-> peer_id])

AddSelfAnnounce(chat_id, node) ==
    /\ ops < MaxAnnounceSteps
    /\ LET o == add_self_announce(announces, chat_id, node, unix_time)
       IN  StoreStep(o.list, gc_announces, o.r, "add_self_announce",
                     [node |-> node, chat_id |-> chat_id])

GetAnnounces(buffer, max_nodes, chat_id, except_public_key) ==
    /\ ops < MaxAnnounceSteps
    /\ LET o == get_gc_announces(announces, buffer, max_nodes, chat_id,
                                 except_public_key)
       IN  StoreStep(announces, o.out, o.r, "get_gc_announces",
                     [buffer |-> buffer, max_nodes |-> max_nodes,
                      chat_id |-> chat_id,
                      except_public_key |-> except_public_key])

CleanupGca(chat_id) ==
    /\ ops < MaxAnnounceSteps
    /\ LET o == cleanup_gca(announces, chat_id)
       IN  StoreStep(o.list, gc_announces, o.r, "cleanup_gca",
                     [chat_id |-> chat_id])

\* GC_ANNOUNCE_SAVING_TIMEOUT is a positive number of seconds set in
\* group_announce.h: limit is unix_time() less such a number.
DoGca(limit) ==
    /\ ops < MaxAnnounceSteps
    /\ StoreStep(do_gca(announces, limit), gc_announces, 0, "do_gca",
                 [limit |-> limit])

\* A second passes.
UnixTime ==
    /\ unix_time < MaxUnixTime
    /\ unix_time' = unix_time + 1
    /\ UNCHANGED <<tvars, gvars, group, ret, gc, call, announces, gc_announces, packed>>

\* --- the store at the start -------------------------------------------------

\* The store after count announces for one chat, from the keys and nodes in
\* turn: what count calls of add_gc_announce leave.
RECURSIVE Announced(_, _)
Announced(chat_id, count) ==
    IF count = 0 THEN <<>>
    ELSE add_gc_announce(Announced(chat_id, count - 1),
                         IF (count % 3) = 0 THEN "node2" ELSE "node1",
                         chat_id,
                         IF (count % 2) = 0 THEN "pkB" ELSE "pkA",
                         0).list

AnnounceCounts == {0, 3, MAX_GCA_SAVED_ANNOUNCES_PER_GC}

AnnounceInit ==
    /\ TransportIdle
    /\ GroupIdle
    /\ group = <<>> /\ gc = <<>> /\ ret = 0 /\ call = <<>>
    /\ gc_announces = <<>>
    /\ unix_time = 0
    /\ packed = <<>>
    /\ \E count \in AnnounceCounts : announces = Announced("chat1", count)

AnnounceNext ==
    \/ \E node \in {"node1", NULL},
          chat_id \in AnnounceChatIds \cup {NULL},
          peer_id \in AnnounceKeys \cup {NULL} :
          AddAnnounce(node, chat_id, peer_id)
    \/ \E chat_id \in AnnounceChatIds, node \in AnnounceNodes :
          AddSelfAnnounce(chat_id, node)
    \/ \E buffer \in {"gc_announces", NULL}, max_nodes \in MaxNodes,
          chat_id \in AnnounceChatIds \cup {NULL},
          except_public_key \in {"pkA", "pkC", NULL} :
          GetAnnounces(buffer, max_nodes, chat_id, except_public_key)
    \/ \E chat_id \in AnnounceChatIds \cup {NULL} : CleanupGca(chat_id)
    \/ \E limit \in -1 .. (unix_time - 1) : DoGca(limit)
    \/ UnixTime

SpecAnnounce == AnnounceInit /\ [][AnnounceNext]_vars

\* --- C20 --------------------------------------------------------------------

GetAnnouncesStep == ops' # ops /\ call'.name = "get_gc_announces"

ArgumentMissing(args) ==
    \/ args.buffer = NULL
    \/ args.chat_id = NULL
    \/ args.except_public_key = NULL

BucketsOf(chat_id) ==
    {n \in 1 .. Len(announces) : announces[n].chat_id = chat_id}

\* The announces a bucket holds: the slots of its ring written so far.
RingOf(b) ==
    {b.announces[k] :
        k \in {k \in 1 .. MAX_GCA_SAVED_ANNOUNCES_PER_GC : k <= b.index}}

\* C20: get_gc_announces returns -1 when an argument is missing or max is 0,
\* otherwise 0 when the store has no bucket for the chat id, and otherwise
\* the number of entries it wrote: at most max entries, every one of them an
\* announce of the ring of that chat id, no two with the same peer public
\* key and none with the key to leave out.
C20_GetAnnounces ==
    [][GetAnnouncesStep =>
          LET args == call'.args
              out == gc_announces'
          IN  IF ArgumentMissing(args) \/ args.max_nodes = 0
              THEN ret' = -1
              ELSE IF BucketsOf(args.chat_id) = {}
              THEN ret' = 0
              ELSE /\ ret' = Len(out)
                   /\ Len(out) <= args.max_nodes
                   /\ \A j \in 1 .. Len(out) :
                         /\ \E n \in BucketsOf(args.chat_id) :
                               out[j] \in RingOf(announces[n])
                         /\ out[j].peer_public_key # args.except_public_key
                         /\ \A k \in 1 .. Len(out) :
                               out[j].peer_public_key = out[k].peer_public_key
                                   => j = k
      ]_vars

\* The ring of the chat is full and holds two keys many times over; the
\* caller's own key is one of them, and one entry came back.
C20_Witness ==
    /\ LastCall("get_gc_announces")
    /\ ~ArgumentMissing(call.args)
    /\ call.args.max_nodes = 2
    /\ \E n \in BucketsOf(call.args.chat_id) :
          /\ announces[n].index > MAX_GCA_SAVED_ANNOUNCES_PER_GC
          /\ \E e \in RingOf(announces[n]) :
                e.peer_public_key = call.args.except_public_key
          /\ Cardinality(RingOf(announces[n])) > 2
    /\ ret = 1
    /\ Len(gc_announces) = 1


\* --- C21 --------------------------------------------------------------------

\* The entries some call of get_gc_announces returns from the store.
Retrievable(chat_id) ==
    UNION {LET o == get_gc_announces(announces, "gc_announces", max_nodes,
                                     chat_id, except_public_key)
           IN  {o.out[j] : j \in 1 .. Len(o.out)} :
              max_nodes \in MaxNodes \ {0},
              except_public_key \in AnnounceKeys \cup {"pkC"}}

\* C21 (as claimed): after do_gca no entry with a timestamp older than now
\* minus the timeout is retrievable with get_gc_announces.
C21_NoStaleEntryRetrievable ==
    LastCall("do_gca") =>
        \A chat_id \in AnnounceChatIds :
           \A e \in Retrievable(chat_id) : ~(e.timestamp < call.args.limit)

\* C21 (amended): after do_gca no entry is retrievable with get_gc_announces
\* for a chat whose last announce was received at now minus the timeout or
\* before it: every retrievable entry is of a bucket that received an
\* announce later than that.
C21_NoStaleBucketRetrievable ==
    LastCall("do_gca") =>
        \A chat_id \in AnnounceChatIds :
           Retrievable(chat_id) # {} =>
              \E n \in BucketsOf(chat_id) :
                 /\ announces[n].last_announce_received_timestamp
                        > call.args.limit
                 /\ \E e \in RingOf(announces[n]) :
                       e.timestamp > call.args.limit

\* A tick one second after the last announce of a chat, with a timeout of
\* one second: the bucket stays, with an announce two seconds old in it.
C21_Witness ==
    /\ LastCall("do_gca")
    /\ call.args.limit = unix_time - 1
    /\ \E n \in BucketsOf("chat1") :
          /\ announces[n].last_announce_received_timestamp = unix_time
          /\ \E e \in Retrievable("chat1") : e.timestamp = unix_time - 2


\* ===========================================================================
\* Part VII. Packed records (pack_gc_peer, pack_gc_shared_state,
\* pack_gc_topic_info and their unpack functions)
\*
\* A byte string is a sequence of numbers 0 .. 255.  packed is the byte
\* string received; an unpack function reads it into group[1] (a peer) or
\* into gc (shared state, topic info), and a pack function writes that
\* structure to an array of its own, kept with the call.
\* ===========================================================================

\* group_chats.h and crypto_core.h are not part of the sources; the sizes
\* are the ones the specification gives.
MAX_GC_NICK_SIZE == 128
MAX_GC_PASSWD_SIZE == 32
EXT_PUBLIC_KEY == 64
SIG_PUBLIC_KEY == 32
GC_MODERATION_HASH_SIZE == 32

PACKED_GC_PEER_SIZE == MAX_GC_NICK_SIZE + 2 + 1 + 1

GC_PACKED_SHARED_STATE_SIZE ==
    EXT_PUBLIC_KEY + 4 + MAX_GC_GROUP_NAME_SIZE + 2 + 1 + 2
        + MAX_GC_PASSWD_SIZE + GC_MODERATION_HASH_SIZE + 4

GC_MIN_PACKED_TOPIC_INFO_SIZE == 2 + SIG_PUBLIC_KEY + 4

MaxPackSteps == 2

MIN(a, b) == IF a < b THEN a ELSE b

\* util.c is not part of the sources: the bytes of a number, the most
\* significant first.
U16_to_bytes(n) == <<n \div 256, n % 256>>
bytes_to_U16(b) == (b[1] * 256) + b[2]
U32_to_bytes(v) == U16_to_bytes(v.hi) \o U16_to_bytes(v.lo)
bytes_to_U32(b) == [hi |-> bytes_to_U16(SubSeq(b, 1, 2)),
                    lo |-> bytes_to_U16(SubSeq(b, 3, 4))]

\* memcpy of n bytes from position at (counted from 0) of a byte string.
Bytes(b, at, n) == SubSeq(b, at + 1, at + n)

\* pack_gc_peer with role before status.
pack_gc_peer_RoleFirst(length, peer) ==
    IF PACKED_GC_PEER_SIZE > length THEN [r |-> -1, data |-> <<>>]
    ELSE [r |-> PACKED_GC_PEER_SIZE,
          data |-> U16_to_bytes(peer.nick_len) \o peer.nick
                       \o <<peer.role>> \o <<peer.status>>]

pack_gc_peer(length, peer) ==
    IF PACKED_GC_PEER_SIZE > length THEN [r |-> -1, data |-> <<>>]
    ELSE [r |-> PACKED_GC_PEER_SIZE,
          data |-> U16_to_bytes(peer.nick_len) \o peer.nick
                       \o <<peer.status>> \o <<peer.role>>]

unpack_gc_peer(b, length) ==
    IF PACKED_GC_PEER_SIZE > length THEN [r |-> -1, peer |-> <<>>]
    ELSE [r |-> PACKED_GC_PEER_SIZE,
          peer |-> [nick_len |-> MIN(MAX_GC_NICK_SIZE,
                                     bytes_to_U16(Bytes(b, 0, 2))),
                    nick |-> Bytes(b, 2, MAX_GC_NICK_SIZE),
                    status |-> b[2 + MAX_GC_NICK_SIZE + 1],
                    role |-> b[2 + MAX_GC_NICK_SIZE + 2]]]

pack_gc_shared_state(length, shared_state) ==
    IF length < GC_PACKED_SHARED_STATE_SIZE THEN [r |-> 0, data |-> <<>>]
    ELSE [r |-> GC_PACKED_SHARED_STATE_SIZE,
          data |-> shared_state.founder_public_key
                       \o U32_to_bytes(shared_state.maxpeers)
                       \o U16_to_bytes(shared_state.group_name_len)
                       \o shared_state.group_name
                       \o <<shared_state.privacy_state>>
                       \o U16_to_bytes(shared_state.passwd_len)
                       \o shared_state.passwd
                       \o shared_state.mod_list_hash
                       \o U32_to_bytes(shared_state.version)]

unpack_gc_shared_state(b, length) ==
    IF length < GC_PACKED_SHARED_STATE_SIZE
    THEN [r |-> 0, shared_state |-> <<>>]
    ELSE LET name_at == EXT_PUBLIC_KEY + 4 + 2
             privacy_at == name_at + MAX_GC_GROUP_NAME_SIZE
             passwd_at == privacy_at + 1 + 2
             hash_at == passwd_at + MAX_GC_PASSWD_SIZE
         IN  [r |-> GC_PACKED_SHARED_STATE_SIZE,
              shared_state |->
                 [founder_public_key |-> Bytes(b, 0, EXT_PUBLIC_KEY),
                  maxpeers |-> bytes_to_U32(Bytes(b, EXT_PUBLIC_KEY, 4)),
                  group_name_len |->
                      MIN(bytes_to_U16(Bytes(b, EXT_PUBLIC_KEY + 4, 2)),
                          MAX_GC_GROUP_NAME_SIZE),
                  group_name |-> Bytes(b, name_at, MAX_GC_GROUP_NAME_SIZE),
                  privacy_state |-> b[privacy_at + 1],
                  passwd_len |-> bytes_to_U16(Bytes(b, privacy_at + 1, 2)),
                  passwd |-> Bytes(b, passwd_at, MAX_GC_PASSWD_SIZE),
                  mod_list_hash |-> Bytes(b, hash_at, GC_MODERATION_HASH_SIZE),
                  version |->
                      bytes_to_U32(Bytes(b, hash_at + GC_MODERATION_HASH_SIZE,
                                         4))]]

\* topic holds the first length bytes of topic_info->topic, the only ones
\* that are read.
pack_gc_topic_info(length, topic_info) ==
    IF length < topic_info.length + GC_MIN_PACKED_TOPIC_INFO_SIZE
    THEN [r |-> 0, data |-> <<>>]
    ELSE [r |-> topic_info.length + GC_MIN_PACKED_TOPIC_INFO_SIZE,
          data |-> U16_to_bytes(topic_info.length)
                       \o topic_info.topic
                       \o topic_info.public_sig_key
                       \o U32_to_bytes(topic_info.version)]

unpack_gc_topic_info(b, length) ==
    IF length < 2 THEN [r |-> -1, topic_info |-> <<>>]
    ELSE LET len == MIN(bytes_to_U16(Bytes(b, 0, 2)), MAX_GC_TOPIC_SIZE)
         IN  IF length - 2 < len + SIG_PUBLIC_KEY + 4
             THEN [r |-> -1, topic_info |-> <<>>]
             ELSE [r |-> 2 + len + SIG_PUBLIC_KEY + 4,
                   topic_info |->
                      [length |-> len,
                       topic |-> Bytes(b, 2, len),
                       public_sig_key |-> Bytes(b, 2 + len, SIG_PUBLIC_KEY),
                       version |->
                           bytes_to_U32(Bytes(b, 2 + len + SIG_PUBLIC_KEY,
                                              4))]]

\* --- actions ----------------------------------------------------------------

PackStep(peer, c, r, name, args) ==
    /\ ops' = ops + 1
    /\ group' = peer
    /\ gc' = c
    /\ ret' = r
    /\ call' = [name |-> name, args |-> args]
    /\ UNCHANGED <<tvars, chat, peers, chan, lossy, cb, announces,
                   gc_announces, unix_time, packed>>

UnpackPeer ==
    /\ ops < MaxPackSteps
    /\ LET o == unpack_gc_peer(packed, Len(packed))
       IN  PackStep(IF o.r = -1 THEN group ELSE <<o.peer>>, gc, o.r,
                    "unpack_gc_peer", [length |-> Len(packed)])

PackPeer(length) ==
    /\ ops < MaxPackSteps
    /\ group # <<>>
    /\ LET o == pack_gc_peer(length, group[1])
       IN  PackStep(group, gc, o.r, "pack_gc_peer",
                    [length |-> length, data |-> o.data])

UnpackSharedState ==
    /\ ops < MaxPackSteps
    /\ LET o == unpack_gc_shared_state(packed, Len(packed))
       IN  PackStep(group,
                    IF o.r = 0 THEN gc
                    ELSE [gc EXCEPT !.shared_state = o.shared_state],
                    o.r, "unpack_gc_shared_state", [length |-> Len(packed)])

PackSharedState(length) ==
    /\ ops < MaxPackSteps
    /\ gc.shared_state # <<>>
    /\ LET o == pack_gc_shared_state(length, gc.shared_state)
       IN  PackStep(group, gc, o.r, "pack_gc_shared_state",
                    [length |-> length, data |-> o.data])

UnpackTopicInfo ==
    /\ ops < MaxPackSteps
    /\ LET o == unpack_gc_topic_info(packed, Len(packed))
       IN  PackStep(group,
                    IF o.r = -1 THEN gc
                    ELSE [gc EXCEPT !.topic_info = o.topic_info],
                    o.r, "unpack_gc_topic_info", [length |-> Len(packed)])

PackTopicInfo(length) ==
    /\ ops < MaxPackSteps
    /\ gc.topic_info # <<>>
    /\ LET o == pack_gc_topic_info(length, gc.topic_info)
       IN  PackStep(group, gc, o.r, "pack_gc_topic_info",
                    [length |-> length, data |-> o.data])

\* --- the byte strings received ----------------------------------------------

Fill(n, byte) == [i \in 1 .. n |-> byte]
Ramp(n, from) == [i \in 1 .. n |-> (from + i) % 256]

LengthFields(max) == {0, 1, max, max + 1, 65535}
Trailing == {<<>>, <<7>>}

PackedPeers ==
    {U16_to_bytes(nick_len) \o nick \o <<status, role>> \o more :
        nick_len \in LengthFields(MAX_GC_NICK_SIZE),
        nick \in {Fill(MAX_GC_NICK_SIZE, 0), Ramp(MAX_GC_NICK_SIZE, 64)},
        status \in {0, 2}, role \in {0, 4}, more \in Trailing}

PackedSharedStates ==
    {Ramp(EXT_PUBLIC_KEY, 0) \o U32_to_bytes(maxpeers)
         \o U16_to_bytes(group_name_len) \o Ramp(MAX_GC_GROUP_NAME_SIZE, 96)
         \o <<privacy_state>> \o U16_to_bytes(passwd_len)
         \o Fill(MAX_GC_PASSWD_SIZE, 112) \o Ramp(GC_MODERATION_HASH_SIZE, 16)
         \o U32_to_bytes(version) \o more :
        maxpeers \in {U32(0), UINT32_MAX},
        group_name_len \in LengthFields(MAX_GC_GROUP_NAME_SIZE),
        privacy_state \in {0, 1},
        passwd_len \in {0, MAX_GC_PASSWD_SIZE + 1},
        version \in Versions, more \in Trailing}

\* A topic of the length its length field says, and one of 513 bytes after
\* the largest length field.
PackedTopics ==
    {U16_to_bytes(length) \o Ramp(have, 32) \o Ramp(SIG_PUBLIC_KEY, 128)
         \o U32_to_bytes(version) \o more :
        <<length, have>> \in {<<0, 0>>, <<1, 1>>,
                              <<MAX_GC_TOPIC_SIZE, MAX_GC_TOPIC_SIZE>>,
                              <<MAX_GC_TOPIC_SIZE + 1, MAX_GC_TOPIC_SIZE + 1>>,
                              <<65535, MAX_GC_TOPIC_SIZE + 1>>},
        version \in Versions, more \in Trailing}

\* A record cut short by one byte.
CutShort(records) == {SubSeq(b, 1, Len(b) - 1) : b \in records}

PackInit ==
    /\ TransportIdle
    /\ GroupIdle
    /\ group = <<>> /\ ret = 0 /\ call = <<>>
    /\ gc = [shared_state |-> <<>>, topic_info |-> <<>>]
    /\ announces = <<>> /\ gc_announces = <<>> /\ unix_time = 0
    /\ packed \in PackedPeers \cup PackedSharedStates \cup PackedTopics
                    \cup CutShort({b \in PackedPeers \cup PackedSharedStates
                                         \cup PackedTopics :
                                      b[Len(b)] # 7})

PackNext ==
    \/ UnpackPeer
    \/ \E length \in {PACKED_GC_PEER_SIZE - 1, PACKED_GC_PEER_SIZE} :
          PackPeer(length)
    \/ UnpackSharedState
    \/ \E length \in {GC_PACKED_SHARED_STATE_SIZE - 1,
                      GC_PACKED_SHARED_STATE_SIZE} :
          PackSharedState(length)
    \/ UnpackTopicInfo
    \/ \E length \in {GC_MIN_PACKED_TOPIC_INFO_SIZE,
                      MAX_GC_TOPIC_SIZE + GC_MIN_PACKED_TOPIC_INFO_SIZE} :
          PackTopicInfo(length)

SpecPack == PackInit /\ [][PackNext]_vars

\* --- C22 --------------------------------------------------------------------

\* The structure that a pack function has just written came from packed.
PackedAgain(name) == ops' # ops /\ call'.name = name /\ ret' > 0

\* The bytes of packed that the unpack function read.
Read == SubSeq(packed, 1, ret')

\* C22 (as claimed): for a peer, a shared state and a topic, packing what was
\* unpacked from a byte string writes the bytes that were read, whatever the
\* length fields hold.
C22_PackUnpack ==
    [][/\ PackedAgain("pack_gc_peer") => call'.args.data = Read
       /\ PackedAgain("pack_gc_shared_state") => call'.args.data = Read
       /\ PackedAgain("pack_gc_topic_info") => call'.args.data = Read
      ]_vars

\* The bytes read, with the length field at position at replaced by max.
WithLength(at, max) ==
    SubSeq(packed, 1, at) \o U16_to_bytes(max)
        \o SubSeq(packed, at + 3, ret')

LengthField(at) == bytes_to_U16(Bytes(packed, at, 2))

RoundTrip(at, max) ==
    call'.args.data = IF LengthField(at) <= max THEN Read
                      ELSE WithLength(at, max)

\* C22 (amended): packing what was unpacked from a byte string writes the
\* bytes that were read when the length field of the nick, the group name or
\* the topic is at most the maximum; a larger length field is written as the
\* maximum, all other bytes as they were read.
C22_PackUnpackWithinMaximum ==
    [][/\ PackedAgain("pack_gc_peer") => RoundTrip(0, MAX_GC_NICK_SIZE)
       /\ PackedAgain("pack_gc_shared_state") =>
             RoundTrip(EXT_PUBLIC_KEY + 4, MAX_GC_GROUP_NAME_SIZE)
       /\ PackedAgain("pack_gc_topic_info") =>
             RoundTrip(0, MAX_GC_TOPIC_SIZE)
      ]_vars

\* A topic of the largest size was unpacked and packed again to the same
\* bytes.
C22_Witness ==
    /\ LastCall("pack_gc_topic_info")
    /\ ret = MAX_GC_TOPIC_SIZE + GC_MIN_PACKED_TOPIC_INFO_SIZE
    /\ bytes_to_U16(Bytes(packed, 0, 2)) = MAX_GC_TOPIC_SIZE
    /\ call.args.data = packed
    /\ gc.topic_info.version = UINT32_MAX


(***************************************************************************)
(* Part VIII: the handshake of two endpoints, F and J, of a public chat.   *)
(* peers[n] is n's GC_Connection of the other endpoint, lossy the          *)
(* handshake datagrams in flight (one copy over UDP, one over a TCP        *)
(* relay), chan[n] the lossless packets n has sent and the other endpoint  *)
(* has not taken yet, cb[n] what n's connection has been seen to send.     *)
(* Nobody is banned and the metre of new connections stays under its       *)
(* limit (Part III).  A session key pair is the number of the peer_add     *)
(* that made it; a shared key is the pair of the two numbers.              *)
(***************************************************************************)
\* handlers and ticks of one behaviour
MaxHandshakeSteps == 6

\* session key pairs one endpoint makes (peer_add calls)
MaxSessions == 2

\* shared_state.version of the two chats when the behaviour starts
HsVersions == {0, 1}

HsRequestTypes == {"HS_INVITE_REQUEST", "HS_PEER_INFO_EXCHANGE"}

OtherEnd(n) == IF n = "F" THEN "J" ELSE "F"

\* a < b on uint32_t
U32Less(a, b) == a.hi < b.hi \/ (a.hi = b.hi /\ a.lo < b.lo)

NoKey == <<0, 0>>

NoConn ==
    [present |-> FALSE, handshaked |-> FALSE, pending_handshake |-> FALSE,
     is_pending_handshake_response |-> FALSE,
     pending_handshake_type |-> "HS_INVITE_REQUEST",
     send_message_id |-> 1, recv_message_id |-> 0,
     self_sent_shared_state_version |-> UINT32_MAX,
     friend_shared_state_version |-> UINT32_MAX,
     session |-> 0, shared_key |-> NoKey]

NoneSent == [invites |-> 0, first |-> 0, acks |-> 0]

\* The part of the program a handler running at endpoint n can touch.
Hs(n) == [n |-> n, c |-> chat[n], g |-> peers[n], ch |-> chan[n], hs |-> lossy, cb |-> cb[n]]

HsCommit(s) ==
    /\ chat' = [chat EXCEPT ![s.n] = s.c]
    /\ peers' = [peers EXCEPT ![s.n] = s.g]
    /\ chan' = [chan EXCEPT ![s.n] = s.ch]
    /\ lossy' = s.hs
    /\ cb' = [cb EXCEPT ![s.n] = s.cb]
    /\ ops' = ops + 1
    /\ UNCHANGED <<tvars, avars>>

\* peer_add: a zeroed connection with a fresh session key pair.
peer_add_conn(s) ==
    [s EXCEPT !.c.keypairs = @ + 1,
              !.g = [NoConn EXCEPT !.present = TRUE, !.session = s.c.keypairs + 1],
              !.cb = NoneSent]

\* gc_peer_delete frees the connection with its send window.
gc_peer_delete_conn(s) == [s EXCEPT !.g = NoConn, !.ch = {}]

peer_reconnect_conn(s) == peer_add_conn(gc_peer_delete_conn(s))

encrypt_precompute(sender_session_pk, session) == <<session, sender_session_pk>>

\* unwrap_group_packet succeeds under the key the sender wrapped with.
Unwraps(g, p) == g.shared_key # NoKey /\ p.key = <<g.shared_key[2], g.shared_key[1]>>

send_lossless_group_packet_conn(s, packet_type) ==
    IF ~s.g.handshaked THEN s
    ELSE [s EXCEPT !.ch = @ \cup {[packet_type |-> packet_type,
                                   message_id |-> s.g.send_message_id,
                                   key |-> s.g.shared_key]},
                   !.g.send_message_id = @ + 1,
                   !.cb.first = IF @ = 0 THEN s.g.send_message_id ELSE @,
                   !.cb.invites = IF packet_type = "GP_INVITE_REQUEST" THEN @ + 1 ELSE @]

gc_send_hs_response_ack_conn(s) == send_lossless_group_packet_conn(s, "GP_HS_RESPONSE_ACK")

send_gc_invite_request_conn(s) == send_lossless_group_packet_conn(s, "GP_INVITE_REQUEST")

send_gc_peer_exchange_conn(s) ==
    send_lossless_group_packet_conn(
        send_lossless_group_packet_conn(s, "GP_PEER_INFO_RESPONSE"),
        "GP_PEER_INFO_REQUEST")

\* The version a handshake packet carries: the one sent before on this
\* connection, else the chat's if it is connected, else 0.
make_gc_handshake_packet_conn(s, handshake_type, request_type) ==
    LET state == IF s.g.self_sent_shared_state_version # UINT32_MAX
                 THEN s.g.self_sent_shared_state_version
                 ELSE IF s.c.connection_state = "CS_CONNECTED"
                 THEN s.c.version ELSE U32(0)
    IN  [s |-> [s EXCEPT !.g.self_sent_shared_state_version = state],
         packet |-> [src |-> s.n, dst |-> OtherEnd(s.n),
                     handshake_type |-> handshake_type,
                     request_type |-> request_type,
                     state |-> state, session_public_key |-> s.g.session]]

\* One datagram over UDP and one over the TCP relay.
send_gc_handshake_packet_conn(s, handshake_type, request_type) ==
    LET m == make_gc_handshake_packet_conn(s, handshake_type, request_type)
    IN  [m.s EXCEPT !.hs = @ \cup {[packet |-> m.packet, via |-> v] : v \in {"udp", "tcp"}}]

\* result is what sending gives (0, or -1 when neither way works), late
\* that the deadline is more than PENDING_HANDSHAKE_SENDING_MAX_INTERVAL ago.
send_pending_handshake_conn(s, result, late) ==
    IF ~s.g.pending_handshake THEN s
    ELSE IF s.g.handshaked THEN [s EXCEPT !.g.pending_handshake = FALSE]
    ELSE LET s1 == IF result # 0
                   THEN [s EXCEPT !.g = make_gc_handshake_packet_conn(s, "", "").s.g]
                   ELSE send_gc_handshake_packet_conn(s,
                            IF s.g.is_pending_handshake_response
                            THEN "GH_RESPONSE" ELSE "GH_REQUEST",
                            s.g.pending_handshake_type)
             s2 == IF result = 0 \/ late
                   THEN [s1 EXCEPT !.g.pending_handshake = FALSE] ELSE s1
         IN  IF result = 0 THEN [s2 EXCEPT !.g.send_message_id = @ + 1] ELSE s2

handle_gc_handshake_request_conn(s, p) ==
    IF s.c.connection_state = "CS_FAILED" THEN s
    ELSE LET s1 == IF ~s.g.present THEN peer_add_conn(s)
                   ELSE IF s.g.handshaked THEN peer_reconnect_conn(s)
                   ELSE s
         IN  [s1 EXCEPT !.g.shared_key = encrypt_precompute(p.session_public_key, s1.g.session),
                        !.g.friend_shared_state_version = p.state,
                        !.g.recv_message_id = @ + 1,
                        !.g.pending_handshake_type = p.request_type,
                        !.g.is_pending_handshake_response = TRUE,
                        !.g.pending_handshake = TRUE]

handle_gc_handshake_response_conn(s, p) ==
    IF ~s.g.present THEN s
    ELSE LET s1 == [s EXCEPT !.g.shared_key = encrypt_precompute(p.session_public_key, s.g.session),
                             !.g.recv_message_id = @ + 1,
                             !.g.handshaked = TRUE,
                             !.g.pending_handshake = FALSE]
             s2 == gc_send_hs_response_ack_conn(s1)
             s3 == [s2 EXCEPT !.g.friend_shared_state_version = p.state]
         IN  CASE p.request_type = "HS_INVITE_REQUEST" ->
                    IF \/ U32Less(s3.g.friend_shared_state_version,
                                  s3.g.self_sent_shared_state_version)
                       \/ /\ s3.g.friend_shared_state_version
                                = s3.g.self_sent_shared_state_version
                          /\ id_cmp(s.n, OtherEnd(s.n)) > 0
                    THEN s3
                    ELSE send_gc_invite_request_conn(s3)
               [] p.request_type = "HS_PEER_INFO_EXCHANGE" -> send_gc_peer_exchange_conn(s2)
               [] OTHER -> s2

handle_gc_handshake_packet_conn(s, p) ==
    IF p.handshake_type = "GH_REQUEST" THEN handle_gc_handshake_request_conn(s, p)
    ELSE IF p.handshake_type = "GH_RESPONSE" THEN handle_gc_handshake_response_conn(s, p)
    ELSE s

handle_gc_hs_response_ack_conn(s) ==
    LET s1 == [s EXCEPT !.g.handshaked = TRUE, !.g.pending_handshake = FALSE,
                        !.cb.acks = @ + 1]
    IN  IF \/ U32Less(s1.g.self_sent_shared_state_version,
                      s1.g.friend_shared_state_version)
           \/ /\ s1.g.friend_shared_state_version = s1.g.self_sent_shared_state_version
              /\ id_cmp(s.n, OtherEnd(s.n)) > 0
        THEN send_gc_invite_request_conn(s1)
        ELSE s1

\* The lossless packets other than the HS_RESPONSE_ACK go to handlers
\* that are outside this part.
handle_gc_lossless_helper_conn(s, p) ==
    IF p.packet_type = "GP_HS_RESPONSE_ACK" THEN handle_gc_hs_response_ack_conn(s)
    ELSE s

\* The packet p of the other endpoint arrives.  taken: the receiver has
\* acknowledged it or holds it in recv_ary, so the sender is done with it.
handle_gc_lossless_message_conn(s, p) ==
    IF ~s.g.present \/ ~Unwraps(s.g, p) THEN [s |-> s, taken |-> FALSE]
    ELSE IF p.packet_type # "GP_HS_RESPONSE_ACK" /\ ~s.g.handshaked
    THEN [s |-> s, taken |-> FALSE]
    ELSE LET r == gcc_handle_recv_message(s.g.recv_message_id, EmptyAry, p)
         IN  IF r.ret = 0 THEN [s |-> s, taken |-> TRUE]
             ELSE IF r.ret # 2 THEN [s |-> s, taken |-> FALSE]
             ELSE [s |-> handle_gc_lossless_helper_conn(
                            [s EXCEPT !.g.recv_message_id = r.recv_message_id], p),
                   taken |-> TRUE]

\* do_gc's switch on the connection state, its timeouts having run out.
do_gc_conn(s) ==
    CASE s.c.connection_state = "CS_CONNECTING" ->
            [s EXCEPT !.c.connection_state = "CS_DISCONNECTED"]
      [] s.c.connection_state = "CS_DISCONNECTED" /\ s.g.present ->
            [s EXCEPT !.c.connection_state = "CS_CONNECTING",
                      !.g.pending_handshake =
                          IF ~s.g.handshaked /\ ~@ THEN TRUE ELSE @]
      [] OTHER -> s

(***************************************************************************)
(* Part VIII.  Actions.                                                    *)
(***************************************************************************)
SendPendingHandshake(n, result, late) ==
    /\ ops < MaxHandshakeSteps
    /\ peers[n].present /\ peers[n].pending_handshake
    /\ HsCommit(send_pending_handshake_conn(Hs(n), result, late))

RecvHandshake(d) ==
    /\ ops < MaxHandshakeSteps
    /\ d \in lossy
    /\ \/ d.packet.handshake_type # "GH_REQUEST"
       \/ peers[d.packet.dst].present /\ ~peers[d.packet.dst].handshaked
       \/ chat[d.packet.dst].keypairs < MaxSessions
    /\ HsCommit(handle_gc_handshake_packet_conn(
                    [Hs(d.packet.dst) EXCEPT !.hs = @ \ {d}], d.packet))

RecvLossless(n, p) ==
    /\ ops < MaxHandshakeSteps
    /\ p \in chan[OtherEnd(n)]
    /\ LET r == handle_gc_lossless_message_conn(Hs(n), p)
       IN  /\ r.taken
           /\ chat' = [chat EXCEPT ![n] = r.s.c]
           /\ peers' = [peers EXCEPT ![n] = r.s.g]
           /\ chan' = [chan EXCEPT ![n] = r.s.ch, ![OtherEnd(n)] = @ \ {p}]
           /\ cb' = [cb EXCEPT ![n] = r.s.cb]
    /\ ops' = ops + 1
    /\ UNCHANGED <<tvars, avars, lossy>>

DropHandshake(d) ==
    /\ ops < MaxHandshakeSteps
    /\ d \in lossy
    /\ lossy' = lossy \ {d}
    /\ ops' = ops + 1
    /\ UNCHANGED <<tvars, avars, chat, peers, chan, cb>>

DoGc(n) ==
    /\ ops < MaxHandshakeSteps
    /\ chat[n].connection_state \in {"CS_CONNECTING", "CS_DISCONNECTED"}
    /\ peers[n].present
    /\ HsCommit(do_gc_conn(Hs(n)))

\* An endpoint that starts the handshake has added the other one on its
\* way into the chat: a connection with a handshake REQUEST pending.
Initiator(type) ==
    [NoConn EXCEPT !.present = TRUE, !.session = 1, !.pending_handshake = TRUE,
                   !.pending_handshake_type = type]

HandshakeInit ==
    /\ TransportIdle
    /\ ApiIdle
    /\ \E type \in HsRequestTypes, starts \in (SUBSET Nodes) \ {{}} :
          /\ peers = [n \in Nodes |-> IF n \in starts THEN Initiator(type) ELSE NoConn]
          /\ chat \in [Nodes -> [connection_state : {"CS_CONNECTED", "CS_CONNECTING"},
                                 version : {U32(v) : v \in HsVersions},
                                 keypairs : {0, 1}]]
          /\ \A n \in Nodes : chat[n].keypairs = IF n \in starts THEN 1 ELSE 0
    /\ chan = [n \in Nodes |-> {}]
    /\ lossy = {}
    /\ cb = [n \in Nodes |-> NoneSent]
    /\ ops = 0

HandshakeNext ==
    \/ \E n \in Nodes, result \in {0, -1}, late \in BOOLEAN :
          SendPendingHandshake(n, result, late)
    \/ \E d \in lossy : RecvHandshake(d)
    \/ \E n \in Nodes : \E p \in chan[OtherEnd(n)] : RecvLossless(n, p)
    \/ \E d \in lossy : DropHandshake(d)
    \/ \E n \in Nodes : DoGc(n)

SpecHandshake == HandshakeInit /\ [][HandshakeNext]_vars


(***************************************************************************)
(* Part VIII.  The invite path after a handshake.                          *)
(***************************************************************************)
\* Both endpoints hold the connection as handshaked, under the same pair
\* of session keys, after a handshake of the given request type.
Completed(type) ==
    /\ \A n \in Nodes : /\ peers[n].present
                        /\ peers[n].handshaked
                        /\ peers[n].pending_handshake_type = type
    /\ peers["F"].shared_key = <<peers["F"].session, peers["J"].session>>
    /\ peers["J"].shared_key = <<peers["J"].session, peers["F"].session>>

\* The version n put into its handshake packets.
Advertised(n) == peers[n].self_sent_shared_state_version

\* n is the endpoint section 4.3 makes the invite-requester.
InviteRequester(n) ==
    \/ U32Less(Advertised(n), Advertised(OtherEnd(n)))
    \/ Advertised(n) = Advertised(OtherEnd(n)) /\ id_cmp(n, OtherEnd(n)) < 0

\* C23: after a completed handshake of request type INVITE_REQUEST, whatever
\* the versions and keys and whoever sent a REQUEST, exactly one of the two
\* endpoints has sent an INVITE_REQUEST and the other one has sent none.
C23_ExactlyOneInviteRequest ==
    Completed("HS_INVITE_REQUEST")
        => (cb["F"].invites > 0) # (cb["J"].invites > 0)

\* C24: after a handshake the endpoint that has sent an INVITE_REQUEST is
\* the one that advertised the lower shared-state version, and with equal
\* versions the one with the smaller public key.
C24_LowerVersionSendsInvite ==
    Completed("HS_INVITE_REQUEST")
        => \A n \in Nodes : cb[n].invites > 0 => InviteRequester(n)

\* No handshake datagram is in flight and none is pending.
HandshakesSettled == lossy = {} /\ \A n \in Nodes : ~peers[n].pending_handshake

\* C25: once the handshake datagrams have settled, the first lossless
\* packet a side has sent on the connection (the HS_RESPONSE_ACK for the
\* side that got the RESPONSE) has the other side's recv_message_id + 1 as
\* its message id, whatever handshake packets were lost, duplicated or sent
\* again: it is the next in-order packet of its receiver.
C25_FirstLosslessIsNextInOrder ==
    HandshakesSettled
        => \A n \in Nodes : \A p \in chan[OtherEnd(n)] :
              (/\ p.message_id = cb[OtherEnd(n)].first
               /\ peers[n].present
               /\ Unwraps(peers[n], p))
                  => p.message_id = peers[n].recv_message_id + 1


(***************************************************************************)
(* Part IX.  Serving a sync request: the responder's chat, its peer table  *)
(* and send windows, and the receive window the requester A keeps of the   *)
(* responder.                                                              *)
(*   chat   the responder's GC_Chat                                        *)
(*   peers  the responder's gcc[1 ..], in peer number order                *)
(*   chan   the lossless packets put into the send windows, in order       *)
(*   lossy  the requester's GC_Connection of the responder                 *)
(*   cb     the last handler call and what it returned                     *)
(***************************************************************************)
MaxServeSteps == 1

Requester == "A"

SyncArtifacts == <<"GP_SHARED_STATE", "GP_MOD_LIST", "GP_SANCTIONS_LIST", "GP_TOPIC">>

\* The fault of one lossless send of a handler call: "unsent", the packet
\* could not be made or its window slot was taken; "net", the packet
\* entered the send window and its first transmission failed.
NoFault == [at |-> 0, kind |-> "none"]

\* (A response that does not enter the window leaves the windows as a
\* failed transmission of the topic leaves them.)
Faults == {NoFault} \cup [at : 1 .. 4, kind : {"unsent", "net"}] \cup {[at |-> 5, kind |-> "net"]}

KindAt(fault, k) == IF fault.at = k THEN fault.kind ELSE "none"

Sv == [c |-> chat, g |-> peers, out |-> chan, ret |-> 0]

SvCommit(s, name, peernumber, fault) ==
    /\ chat' = s.c
    /\ peers' = s.g
    /\ chan' = s.out
    /\ cb' = [name |-> name, peernumber |-> peernumber, fault |-> fault, ret |-> s.ret]
    /\ ops' = ops + 1
    /\ UNCHANGED <<tvars, avars>>

\* The packet enters the window of peer i with the connection's next
\* message id; the call fails when the connection is not handshaked, when
\* the window slot is taken, and when the transmission fails.
send_lossless_group_packet_serve(s, i, packet_type, kind) ==
    IF ~s.g[i].handshaked \/ kind = "unsent"
    THEN [s EXCEPT !.ret = -1]
    ELSE [s EXCEPT !.out = Append(@, [to |-> s.g[i].public_key,
                                      packet_type |-> packet_type,
                                      message_id |-> s.g[i].send_message_id]),
                   !.g[i].send_message_id = @ + 1,
                   !.ret = IF kind = "net" THEN -1 ELSE 0]

send_peer_shared_state_serve(s, i, kind) ==
    IF s.c.shared_state.version = 0
    THEN [s EXCEPT !.ret = -1]
    ELSE send_lossless_group_packet_serve(s, i, "GP_SHARED_STATE", kind)

send_peer_mod_list_serve(s, i, kind) == send_lossless_group_packet_serve(s, i, "GP_MOD_LIST", kind)

send_peer_sanctions_list_serve(s, i, kind) == send_lossless_group_packet_serve(s, i, "GP_SANCTIONS_LIST", kind)

send_peer_topic_serve(s, i, kind) == send_lossless_group_packet_serve(s, i, "GP_TOPIC", kind)

send_gc_sync_response_serve(s, i, kind) == send_lossless_group_packet_serve(s, i, "GP_SYNC_RESPONSE", kind)

\* The announcement of the requester to the other confirmed peers, in
\* peer number order; what the sends return is not looked at.
RECURSIVE send_new_peer_announcements(_, _, _)
send_new_peer_announcements(s, i, j) ==
    IF j > Len(s.g) THEN s
    ELSE IF j # i /\ s.g[j].confirmed /\ s.g[j].public_key # s.g[i].public_key
    THEN send_new_peer_announcements(
             [send_lossless_group_packet_serve(s, j, "GP_PEER_ANNOUNCE", "none")
                 EXCEPT !.ret = s.ret], i, j + 1)
    ELSE send_new_peer_announcements(s, i, j + 1)

\* handle_gc_sync_request going on after a failed send.
handle_gc_sync_request_KeepsGoing(s, i, p, fault) ==
    IF ~p.length_ok THEN [s EXCEPT !.ret = -1]
    ELSE IF s.c.connection_state # "CS_CONNECTED" \/ s.c.shared_state.version = 0
    THEN [s EXCEPT !.ret = -1]
    ELSE IF s.c.shared_state.passwd_len > 0 /\ p.passwd # s.c.shared_state.passwd
    THEN [s EXCEPT !.ret = -1]
    ELSE LET s1 == send_peer_shared_state_serve(s, i, KindAt(fault, 1))
             s2 == send_peer_mod_list_serve(s1, i, KindAt(fault, 2))
             s3 == send_peer_sanctions_list_serve(s2, i, KindAt(fault, 3))
             s4 == send_peer_topic_serve(s3, i, KindAt(fault, 4))
         IN  send_gc_sync_response_serve(
                 send_new_peer_announcements(s4, i, 1), i, KindAt(fault, 5))

\* handle_gc_sync_request for the request p of peer i: the four artifacts
\* in their order, each send ending the call when it fails, the
\* announcements to the other peers, and the response.
handle_gc_sync_request_serve(s, i, p, fault) ==
    IF ~p.length_ok THEN [s EXCEPT !.ret = -1]
    ELSE IF s.c.connection_state # "CS_CONNECTED" \/ s.c.shared_state.version = 0
    THEN [s EXCEPT !.ret = -1]
    ELSE IF s.c.shared_state.passwd_len > 0 /\ p.passwd # s.c.shared_state.passwd
    THEN [s EXCEPT !.ret = -1]
    ELSE LET s1 == send_peer_shared_state_serve(s, i, KindAt(fault, 1))
             s2 == send_peer_mod_list_serve(s1, i, KindAt(fault, 2))
             s3 == send_peer_sanctions_list_serve(s2, i, KindAt(fault, 3))
             s4 == send_peer_topic_serve(s3, i, KindAt(fault, 4))
         IN  IF s1.ret = -1 THEN s1
             ELSE IF s2.ret = -1 THEN s2
             ELSE IF s3.ret = -1 THEN s3
             ELSE IF s4.ret = -1 THEN s4
             ELSE send_gc_sync_response_serve(
                      send_new_peer_announcements(s4, i, 1), i, KindAt(fault, 5))

(***************************************************************************)
(* Part IX.  Actions.                                                      *)
(***************************************************************************)
SyncRequests == [length_ok : BOOLEAN, passwd : {<<>>, <<"p">>}]

\* A SYNC_REQUEST of peer i reaches its handler (the lossless dispatch
\* hands over the packets of handshaked connections only).
HandleSyncRequest(i, p, fault) ==
    /\ ops < MaxServeSteps
    /\ i \in 1 .. Len(peers) /\ peers[i].handshaked
    /\ SvCommit(handle_gc_sync_request_serve(Sv, i, p, fault), "handle_gc_sync_request", i, fault)
    /\ UNCHANGED lossy

\* Any other lossless packet of the responder to peer i, a broadcast say.
SendBroadcast(i) ==
    /\ ops < MaxServeSteps
    /\ i \in 1 .. Len(peers)
    /\ SvCommit(send_lossless_group_packet_serve(Sv, i, "GP_BROADCAST", "none"), "send_gc_broadcast_message", i, NoFault)
    /\ UNCHANGED lossy

\* A packet of the responder's window reaches the requester, in any order
\* and any number of times; h is what its handler makes of it.
DeliverToRequester(k, h) ==
    /\ k \in 1 .. Len(chan) /\ chan[k].to = Requester
    /\ LET r == handle_gc_lossless_message(TRUE, lossy.recv_message_id, lossy.recv_ary, lossy.handled,
                                           [message_id |-> chan[k].message_id, packet_type |-> chan[k].packet_type], h)
       IN  lossy' = [recv_message_id |-> r.recv_message_id, recv_ary |-> r.recv_ary, handled |-> r.handled]
    /\ UNCHANGED <<tvars, avars, chat, peers, chan, cb, ops>>

ServeTables ==
    {<<[public_key |-> "A", confirmed |-> TRUE, handshaked |-> TRUE, send_message_id |-> 62],
       [public_key |-> "B", confirmed |-> TRUE, handshaked |-> TRUE, send_message_id |-> 1]>>,
     <<[public_key |-> "B", confirmed |-> FALSE, handshaked |-> TRUE, send_message_id |-> 1],
       [public_key |-> "A", confirmed |-> FALSE, handshaked |-> TRUE, send_message_id |-> 1]>>}

ServeChats ==
    {[connection_state |-> "CS_CONNECTED", shared_state |-> [version |-> 1, passwd_len |-> 0, passwd |-> <<>>]],
     [connection_state |-> "CS_CONNECTED", shared_state |-> [version |-> 1, passwd_len |-> 1, passwd |-> <<"p">>]],
     [connection_state |-> "CS_CONNECTED", shared_state |-> [version |-> 0, passwd_len |-> 0, passwd |-> <<>>]],
     [connection_state |-> "CS_CONNECTING", shared_state |-> [version |-> 1, passwd_len |-> 0, passwd |-> <<>>]]}

ServeInit ==
    /\ TransportIdle /\ ApiIdle
    /\ chat \in ServeChats
    /\ peers \in ServeTables
    /\ chan = <<>>
    /\ \E i \in 1 .. Len(peers) :
          /\ peers[i].public_key = Requester
          /\ lossy = [recv_message_id |-> peers[i].send_message_id - 1, recv_ary |-> EmptyAry, handled |-> <<>>]
    /\ cb = [name |-> "none", peernumber |-> 0, fault |-> NoFault, ret |-> 0]
    /\ ops = 0

ServeNext ==
    \/ \E i \in 1 .. 2, p \in SyncRequests, fault \in Faults : HandleSyncRequest(i, p, fault)
    \/ \E i \in 1 .. 2 : SendBroadcast(i)
    \/ \E k \in 1 .. (6 * MaxServeSteps), h \in {"ok", "fail"} : DeliverToRequester(k, h)

SpecServe == ServeInit /\ [][ServeNext]_vars


(***************************************************************************)
(* Part IX.  Properties of the served sync request.                        *)
(***************************************************************************)
SentTo(k, seq) == SelectSeq(seq, LAMBDA q : q.to = k)

\* The packets the step put into the window of the peer with key k.
PutInWindow(k) == SubSeq(SentTo(k, chan'), Len(SentTo(k, chan)) + 1, Len(SentTo(k, chan')))

TypesOf(seq) == [j \in 1 .. Len(seq) |-> seq[j].packet_type]

\* The packet type the responder sent to the requester under a message id.
TypeOfId(id) == (CHOOSE q \in SeqToSet(chan) : q.to = Requester /\ q.message_id = id).packet_type

SyncRequestStep == ops' = ops + 1 /\ cb'.name = "handle_gc_sync_request"

ServedInOrder ==
    SyncRequestStep =>
        LET i == cb'.peernumber
            new == PutInWindow(peers[i].public_key)
        IN  /\ (cb'.ret = 0 \/ "GP_SYNC_RESPONSE" \in SeqToSet(TypesOf(new)))
                => /\ TypesOf(new) = Append(SyncArtifacts, "GP_SYNC_RESPONSE")
                   /\ \A j \in 1 .. 5 : new[j].message_id = peers[i].send_message_id + j - 1
            /\ (cb'.fault.at \in 1 .. 4) => "GP_SYNC_RESPONSE" \notin SeqToSet(TypesOf(new))

RequesterAppliesInOrder ==
    \A k \in 1 .. Len(lossy.handled) :
        TypeOfId(lossy.handled[k]) = "GP_SYNC_RESPONSE"
            => /\ k >= 5
               /\ [j \in 1 .. 4 |-> TypeOfId(lossy.handled[k - 5 + j])] = SyncArtifacts

\* C26: a served SYNC_REQUEST puts SHARED_STATE, MOD_LIST, SANCTIONS_LIST,
\* TOPIC and SYNC_RESPONSE into the requester's window in this order under
\* five consecutive message ids; a call in which one of the four sends
\* fails enqueues no SYNC_RESPONSE; and whatever the arrival order, the
\* requester hands a SYNC_RESPONSE to its handler only after the four
\* artifacts that precede it.
C26_SyncResponseOrder == [][ServedInOrder]_vars /\ []RequesterAppliesInOrder

\* The requester has handled the SYNC_RESPONSE of a served request.
C26_Witness ==
    /\ cb.name = "handle_gc_sync_request" /\ cb.ret = 0
    /\ Len(lossy.handled) >= 5
    /\ TypeOfId(lossy.handled[Len(lossy.handled)]) = "GP_SYNC_RESPONSE"


(***************************************************************************)
(* Part X.  The signed artifacts a chat receives from its peers: shared    *)
(* state, moderator list, sanctions list and topic.                        *)
(*   chat   the receiver's GC_Chat                                         *)
(*   peers  the receiver's gcc[1 ..], in peer number order                 *)
(*   chan   the lossless packets the receiver has sent, in order           *)
(*   cb     the last handler call: its packet, what it returned, the       *)
(*          callbacks it ran                                               *)
(***************************************************************************)
MaxArtifactSteps == 1

ENC_PUBLIC_KEY == 32

SIZEOF_IP_PORT == 24

MAX_GC_NUM_PEERS == MAX_GC_PACKET_SIZE \div (ENC_PUBLIC_KEY + SIZEOF_IP_PORT)

Ar == [c |-> chat, g |-> peers, out |-> chan, cb |-> <<>>, ret |-> 0]

ArCommit(s, name, peernumber, p) ==
    /\ chat' = s.c
    /\ peers' = s.g
    /\ chan' = s.out
    /\ cb' = [name |-> name, peernumber |-> peernumber, packet |-> p, ret |-> s.ret, fired |-> s.cb]
    /\ ops' = ops + 1
    /\ UNCHANGED <<tvars, avars, lossy>>

send_lossless_group_packet_chat(s, i, packet_type) ==
    IF ~s.g[i].handshaked
    THEN [s EXCEPT !.ret = -1]
    ELSE [s EXCEPT !.out = Append(@, [to |-> s.g[i].public_key,
                                      packet_type |-> packet_type,
                                      message_id |-> s.g[i].send_message_id]),
                   !.g[i].send_message_id = @ + 1,
                   !.ret = 0]

\* One sync request at a time is open with a peer.
send_gc_sync_request_chat(s, i) ==
    IF s.g[i].pending_sync_request
    THEN [s EXCEPT !.ret = -1]
    ELSE send_lossless_group_packet_chat(
             [s EXCEPT !.g[i].pending_sync_request = TRUE], i, "GP_SYNC_REQUEST")

\* A private chat that is not connected keeps the peer; otherwise the last
\* peer of the table takes the place of the deleted one.
gc_peer_delete_chat(s, i, reason) ==
    IF s.c.connection_state \in {"CS_DISCONNECTED", "CS_CONNECTING"} /\ ~is_public_chat(s.c)
    THEN [s EXCEPT !.ret = -1]
    ELSE LET gconn == s.g[i]
             last == Len(s.g)
             s1 == IF gconn.handshaked /\ ~is_peer_confirmed(s.c, gconn.public_key)
                   THEN [s EXCEPT !.c.confirmed_peers = @ \cup {gconn.public_key}]
                   ELSE s
             s2 == IF gconn.confirmed
                   THEN Callback(s1, "peer_exit", gconn.public_key, 0)
                   ELSE s1
         IN  [s2 EXCEPT !.g = [j \in 1 .. (last - 1) |-> IF j = i THEN s.g[last] ELSE s.g[j]],
                        !.ret = 0]

\* The on_error exit of the three handlers: the sender is deleted; without
\* a shared state the chat disconnects; with another peer in the table a
\* sync request goes to gcc[1].
on_error_chat(s, i, reason) ==
    LET s1 == gc_peer_delete_chat(s, i, reason)
    IN  IF s1.c.shared_state.version = 0
        THEN [s1 EXCEPT !.c.connection_state = "CS_DISCONNECTED", !.ret = -1]
        ELSE IF Len(s1.g) + 1 <= 1
        THEN [s1 EXCEPT !.ret = -1]
        ELSE send_gc_sync_request_chat(s1, 1)

unpack_shared_state_chat(data) == [data EXCEPT !.group_name_len = MIN(@, MAX_GC_GROUP_NAME_SIZE)]

validate_gc_shared_state(state) ==
    IF state.maxpeers > MAX_GC_NUM_PEERS THEN -1
    ELSE IF state.passwd_len > MAX_GC_PASSWD_SIZE THEN -1
    ELSE IF state.group_name_len = 0 \/ state.group_name_len > MAX_GC_GROUP_NAME_SIZE THEN -1
    ELSE 0

\* handle_gc_shared_state storing what it unpacked before it looks at the
\* values.
handle_gc_shared_state_StoreFirst(s, i, p) ==
    IF ~p.length_ok THEN on_error_chat(s, i, "BAD SHARED STATE")
    ELSE IF ~crypto_sign_verify_detached(p.sig, p.data) THEN on_error_chat(s, i, "BAD SHARED STATE")
    ELSE IF p.data.version < s.c.shared_state.version THEN [s EXCEPT !.ret = 0]
    ELSE LET new == unpack_shared_state_chat(p.data)
             s1 == [s EXCEPT !.c.shared_state = new, !.c.shared_state_sig = p.sig]
         IN  IF validate_gc_shared_state(new) = -1 THEN [s1 EXCEPT !.ret = -1]
             ELSE [do_gc_shared_state_changes(s1, s.c.shared_state) EXCEPT !.ret = 0]

handle_gc_shared_state_chat(s, i, p) ==
    IF ~p.length_ok THEN on_error_chat(s, i, "BAD SHARED STATE")
    ELSE IF ~crypto_sign_verify_detached(p.sig, p.data) THEN on_error_chat(s, i, "BAD SHARED STATE")
    ELSE IF p.data.version < s.c.shared_state.version THEN [s EXCEPT !.ret = 0]
    ELSE LET new == unpack_shared_state_chat(p.data)
             s1 == [s EXCEPT !.c.shared_state = new, !.c.shared_state_sig = p.sig]
         IN  IF validate_gc_shared_state(new) = -1 THEN [s EXCEPT !.ret = -1]
             ELSE [do_gc_shared_state_changes(s1, s.c.shared_state) EXCEPT !.ret = 0]

\* The key signs for the chat: the founder's key or a listed moderator's.
mod_list_verify_sig_pk(c, public_sig_key) ==
    \/ public_sig_key = c.shared_state.founder_public_key
    \/ mod_list_index_of_sig_pk(c.mod_list, public_sig_key)

validate_self_role(c) ==
    CASE c.role = "GR_FOUNDER" -> c.shared_state.founder_public_key = c.self_public_key
      [] c.role = "GR_MODERATOR" -> mod_list_index_of_sig_pk(c.mod_list, c.self_public_key)
      [] OTHER -> TRUE

handle_gc_mod_list_chat(s, i, p) ==
    IF s.c.role = "GR_FOUNDER" THEN [s EXCEPT !.ret = 0]
    ELSE IF ~p.num_ok THEN on_error_chat(s, i, "BAD MLIST")
    ELSE IF ~p.unpack_ok THEN on_error_chat(s, i, "BAD MLIST")
    ELSE LET s1 == [s EXCEPT !.c.mod_list = p.mods]
         IN  IF mod_list_make_hash(s1.c.mod_list) # s1.c.shared_state.mod_list_hash
             THEN on_error_chat(s1, i, "BAD MLIST")
             ELSE IF ~validate_self_role(s1.c)
             THEN [s1 EXCEPT !.c.role = "GR_USER", !.ret = 0]
             ELSE [s1 EXCEPT !.ret = 0]

\* The credentials are signed by a key that signs for the chat.
sanctions_list_check_integrity(c, creds) == IF mod_list_verify_sig_pk(c, creds.signer) THEN 0 ELSE -1

\* handle_gc_sanctions_list comparing the cached version with the one of
\* the packet.
handle_gc_sanctions_list_ByVersion(s, i, p) ==
    IF p.num_ok /\ p.unpack_ok /\ sanctions_list_check_integrity(s.c, p.creds) = 0
    THEN [s EXCEPT !.c.sanctions_creds = p.creds, !.ret = 0]
    ELSE IF s.c.sanctions_creds.version >= p.creds.version THEN [s EXCEPT !.ret = 0]
    ELSE on_error_chat(s, i, "BAD SCREDS")

handle_gc_sanctions_list_chat(s, i, p) ==
    IF p.num_ok /\ p.unpack_ok /\ sanctions_list_check_integrity(s.c, p.creds) = 0
    THEN [s EXCEPT !.c.sanctions_creds = p.creds, !.ret = 0]
    ELSE IF s.c.sanctions_creds.version > 0 THEN [s EXCEPT !.ret = 0]
    ELSE on_error_chat(s, i, "BAD SCREDS")

handle_gc_topic_chat(s, i, p) ==
    IF ~p.length_ok THEN [s EXCEPT !.ret = -1]
    ELSE IF ~mod_list_verify_sig_pk(s.c, p.topic_info.public_sig_key) THEN [s EXCEPT !.ret = -1]
    ELSE IF ~(p.sig.signer = p.topic_info.public_sig_key /\ p.sig.over = p.topic_info)
    THEN [s EXCEPT !.ret = -1]
    ELSE IF p.topic_info.version < s.c.topic_info.version THEN [s EXCEPT !.ret = 0]
    ELSE LET skip_callback == /\ s.c.topic_info.length = p.topic_info.length
                              /\ memcmp(s.c.topic_info.topic, p.topic_info.topic, p.topic_info.length) = 0
             s1 == [s EXCEPT !.c.topic_info = p.topic_info, !.c.topic_sig = p.sig, !.ret = 0]
         IN  IF ~skip_callback /\ s.c.connection_state = "CS_CONNECTED"
             THEN Callback(s1, "topic_change", p.topic_info.topic, p.topic_info.length)
             ELSE s1

(***************************************************************************)
(* Part X.  Packets and actions.                                           *)
(***************************************************************************)
FounderSigKey == "founder_sig"

ModSigKey == "mod_sig"

SharedStateOf(version, variant, privacy_state) ==
    [founder_public_key |-> FounderSigKey,
     maxpeers |-> CASE variant = "maxpeers" -> 20
                    [] variant = "too_many" -> MAX_GC_NUM_PEERS + 1
                    [] OTHER -> 10,
     group_name_len |-> CASE variant = "no_name" -> 0
                          [] variant = "long_name" -> MAX_GC_GROUP_NAME_SIZE + 12
                          [] OTHER -> 4,
     privacy_state |-> privacy_state,
     passwd_len |-> IF variant = "long_passwd" THEN MAX_GC_PASSWD_SIZE + 1 ELSE 0,
     passwd |-> <<>>,
     mod_list_hash |-> mod_list_make_hash(<<ModSigKey>>),
     version |-> version]

Variants == {"plain", "maxpeers", "too_many", "no_name", "long_name", "long_passwd"}

\* SHARED_STATE packets: signed by the founder, of every variant and
\* version; one with a signature that does not verify; one too short.
SharedStatePackets ==
    {[length_ok |-> TRUE, sig |-> crypto_sign_detached(SharedStateOf(v, x, pr)), data |-> SharedStateOf(v, x, pr)] :
         v \in 0 .. 2, x \in Variants, pr \in {"GI_PUBLIC", "GI_PRIVATE"}}
    \cup {[length_ok |-> TRUE, sig |-> [signer |-> "other_key", over |-> SharedStateOf(2, "plain", "GI_PUBLIC")],
           data |-> SharedStateOf(2, "plain", "GI_PUBLIC")],
          [length_ok |-> FALSE, sig |-> crypto_sign_detached(SharedStateOf(2, "plain", "GI_PUBLIC")),
           data |-> SharedStateOf(2, "plain", "GI_PUBLIC")]}

TopicInfoOf(version, topic, public_sig_key) ==
    [version |-> version, length |-> Len(topic), topic |-> topic, public_sig_key |-> public_sig_key]

TopicPackets ==
    {[length_ok |-> TRUE, sig |-> [signer |-> k, over |-> TopicInfoOf(v, t, k)],
      topic_info |-> TopicInfoOf(v, t, k)] : v \in 0 .. 2, t \in {<<"t">>, <<"u">>}, k \in {FounderSigKey, ModSigKey, "user_sig"}}
    \cup {[length_ok |-> TRUE, sig |-> [signer |-> "other_key", over |-> TopicInfoOf(2, <<"u">>, ModSigKey)],
           topic_info |-> TopicInfoOf(2, <<"u">>, ModSigKey)],
          [length_ok |-> FALSE, sig |-> [signer |-> ModSigKey, over |-> TopicInfoOf(2, <<"u">>, ModSigKey)],
           topic_info |-> TopicInfoOf(2, <<"u">>, ModSigKey)]}

ModListPackets ==
    {[num_ok |-> TRUE, unpack_ok |-> TRUE, mods |-> m] : m \in {<<ModSigKey>>, <<"user_sig">>, <<>>}}
    \cup {[num_ok |-> FALSE, unpack_ok |-> TRUE, mods |-> <<ModSigKey>>],
          [num_ok |-> TRUE, unpack_ok |-> FALSE, mods |-> <<ModSigKey>>]}

SanctionsPackets ==
    {[num_ok |-> TRUE, unpack_ok |-> TRUE, creds |-> [version |-> v, signer |-> k]] : v \in 1 .. 2, k \in {ModSigKey, "user_sig"}}
    \cup {[num_ok |-> FALSE, unpack_ok |-> TRUE, creds |-> [version |-> 2, signer |-> ModSigKey]],
          [num_ok |-> TRUE, unpack_ok |-> FALSE, creds |-> [version |-> 2, signer |-> ModSigKey]]}

\* The lossless dispatch hands over the packets of handshaked connections.
HandleSharedState(i, p) ==
    /\ ops < MaxArtifactSteps
    /\ i \in 1 .. Len(peers) /\ peers[i].handshaked
    /\ ArCommit(handle_gc_shared_state_chat(Ar, i, p), "handle_gc_shared_state", i, p)

HandleModList(i, p) ==
    /\ ops < MaxArtifactSteps
    /\ i \in 1 .. Len(peers) /\ peers[i].handshaked
    /\ ArCommit(handle_gc_mod_list_chat(Ar, i, p), "handle_gc_mod_list", i, p)

HandleSanctionsList(i, p) ==
    /\ ops < MaxArtifactSteps
    /\ i \in 1 .. Len(peers) /\ peers[i].handshaked
    /\ ArCommit(handle_gc_sanctions_list_chat(Ar, i, p), "handle_gc_sanctions_list", i, p)

HandleTopic(i, p) ==
    /\ ops < MaxArtifactSteps
    /\ i \in 1 .. Len(peers) /\ peers[i].handshaked
    /\ ArCommit(handle_gc_topic_chat(Ar, i, p), "handle_gc_topic", i, p)

PeerOf(key, pending_sync_request) ==
    [public_key |-> key, confirmed |-> TRUE, handshaked |-> TRUE,
     pending_sync_request |-> pending_sync_request, pending_state_sync |-> FALSE,
     send_message_id |-> 1]

ArtifactTables ==
    {<<PeerOf("A", FALSE)>>,
     <<PeerOf("A", FALSE), PeerOf("B", FALSE)>>,
     <<PeerOf("B", FALSE), PeerOf("A", FALSE)>>,
     <<PeerOf("A", FALSE), PeerOf("B", TRUE)>>}

ChatOf(connection_state, role, version, privacy_state, creds_version) ==
    [connection_state |-> connection_state,
     self_public_key |-> IF role = "GR_FOUNDER" THEN FounderSigKey ELSE "self_sig",
     role |-> role,
     shared_state |-> SharedStateOf(version, "plain", privacy_state),
     shared_state_sig |-> crypto_sign_detached(SharedStateOf(version, "plain", privacy_state)),
     mod_list |-> <<ModSigKey>>,
     sanctions_creds |-> [version |-> creds_version, signer |-> FounderSigKey],
     topic_info |-> TopicInfoOf(1, <<"t">>, ModSigKey),
     topic_sig |-> [signer |-> ModSigKey, over |-> TopicInfoOf(1, <<"t">>, ModSigKey)],
     confirmed_peers |-> {}]

ArtifactInit ==
    /\ TransportIdle /\ ApiIdle
    /\ \E cs \in {"CS_CONNECTED", "CS_CONNECTING"}, v \in {0, 1}, pr \in {"GI_PUBLIC", "GI_PRIVATE"}, cv \in {0, 1} :
          \/ chat = ChatOf(cs, "GR_USER", v, pr, cv)
          \/ cs = "CS_CONNECTED" /\ v = 1 /\ cv = 1 /\ chat = ChatOf(cs, "GR_FOUNDER", v, pr, cv)
    /\ peers \in ArtifactTables
    /\ chan = <<>>
    /\ lossy = {}
    /\ cb = [name |-> "none", peernumber |-> 0, packet |-> <<>>, ret |-> 0, fired |-> <<>>]
    /\ ops = 0

ArtifactNext ==
    \/ \E i \in 1 .. 2, p \in SharedStatePackets : HandleSharedState(i, p)
    \/ \E i \in 1 .. 2, p \in ModListPackets : HandleModList(i, p)
    \/ \E i \in 1 .. 2, p \in SanctionsPackets : HandleSanctionsList(i, p)
    \/ \E i \in 1 .. 2, p \in TopicPackets : HandleTopic(i, p)

SpecArtifact == ArtifactInit /\ [][ArtifactNext]_vars


(***************************************************************************)
(* Part X.  Properties of the received artifacts.                          *)
(***************************************************************************)
ArtifactStep(name) == ops' = ops + 1 /\ cb'.name = name

Fired(names) == \E j \in 1 .. Len(cb'.fired) : cb'.fired[j].name \in names

SharedStateKept == chat'.shared_state = chat.shared_state /\ chat'.shared_state_sig = chat.shared_state_sig

TopicKept == chat'.topic_info = chat.topic_info /\ chat'.topic_sig = chat.topic_sig

SharedStateReplaceRule ==
    ArtifactStep("handle_gc_shared_state") =>
        /\ chat'.shared_state.version >= chat.shared_state.version
        /\ chat'.shared_state.version = chat.shared_state.version
               => SharedStateKept /\ ~Fired({"peer_limit", "privacy_state", "password"})

TopicReplaceRule ==
    ArtifactStep("handle_gc_topic") =>
        /\ chat'.topic_info.version >= chat.topic_info.version
        /\ chat'.topic_info.version = chat.topic_info.version
               => TopicKept /\ ~Fired({"topic_change"})

\* C27: a shared state or topic packet replaces the cached artifact only
\* when its version is strictly larger: a step of either handler never
\* lowers the cached version, and a step that leaves the version where it
\* was leaves the cached contents and signature as they were and runs no
\* change callback.
C27_StrictlyLargerReplaces == [][SharedStateReplaceRule /\ TopicReplaceRule]_vars


IllegalValues(state) ==
    \/ state.maxpeers > MAX_GC_NUM_PEERS
    \/ state.passwd_len > MAX_GC_PASSWD_SIZE
    \/ state.group_name_len = 0
    \/ state.group_name_len > MAX_GC_GROUP_NAME_SIZE

BadSharedState(p) ==
    \/ ~p.length_ok
    \/ ~crypto_sign_verify_detached(p.sig, p.data)
    \/ IllegalValues(unpack_shared_state_chat(p.data))

\* C28: a SHARED_STATE packet of the wrong length, with a signature that
\* does not verify under the chat's key, or that unpacks to illegal values
\* leaves the cached shared state and the cached signature as they were.
C28_BadSharedStateKeepsCache ==
    [][(ArtifactStep("handle_gc_shared_state") /\ BadSharedState(cb'.packet)) => SharedStateKept]_vars

\* A validly signed packet of a version above the cached one, with illegal
\* values, has been handled.
C28_Witness ==
    /\ cb.name = "handle_gc_shared_state"
    /\ cb.packet.length_ok
    /\ crypto_sign_verify_detached(cb.packet.sig, cb.packet.data)
    /\ IllegalValues(unpack_shared_state_chat(cb.packet.data))
    /\ cb.packet.data.version > chat.shared_state.version
    /\ cb.ret = -1

KeysOf(g) == {g[j].public_key : j \in 1 .. Len(g)}

\* The packet of the step fails the validation of its handler.
FailsValidation ==
    \/ /\ ArtifactStep("handle_gc_shared_state")
       /\ BadSharedState(cb'.packet)
    \/ /\ ArtifactStep("handle_gc_mod_list")
       /\ chat.role # "GR_FOUNDER"
       /\ \/ ~cb'.packet.num_ok
          \/ ~cb'.packet.unpack_ok
          \/ mod_list_make_hash(cb'.packet.mods) # chat.shared_state.mod_list_hash
    \/ /\ ArtifactStep("handle_gc_sanctions_list")
       /\ \/ ~cb'.packet.num_ok
          \/ ~cb'.packet.unpack_ok
          \/ sanctions_list_check_integrity(chat, cb'.packet.creds) = -1

OffenderRemoved == KeysOf(peers') = KeysOf(peers) \ {peers[cb'.peernumber].public_key}

SyncRequestToAnother ==
    /\ Len(chan') = Len(chan) + 1
    /\ chan'[Len(chan')].packet_type = "GP_SYNC_REQUEST"
    /\ chan'[Len(chan')].to # peers[cb'.peernumber].public_key

\* C29: a shared state, moderator list or sanctions list that fails
\* validation removes its sender and nobody else from the peer table, and
\* with another peer left a SYNC_REQUEST goes to a peer other than the
\* sender, whatever the connection state and the privacy state.
C29_OffenderRemovedAndResync ==
    [][FailsValidation => (OffenderRemoved /\ (KeysOf(peers') # {} => SyncRequestToAnother))]_vars


\* The SANCTIONS_LIST packet of the step fails a check of its handler.
SanctionsListFails ==
    /\ ArtifactStep("handle_gc_sanctions_list")
    /\ \/ ~cb'.packet.num_ok
       \/ ~cb'.packet.unpack_ok
       \/ sanctions_list_check_integrity(chat, cb'.packet.creds) = -1

IgnoredSilently ==
    /\ chat' = chat /\ peers' = peers /\ chan' = chan
    /\ cb'.ret = 0 /\ cb'.fired = <<>>

\* gc_peer_delete is called for the sender, which removes it from the table
\* of a chat that is connected or public; a chat without a shared state
\* disconnects, any other chat asks the first peer it has left, if it has
\* no open request with it, for a sync.
HandledAsBadPeer ==
    /\ chat.connection_state = "CS_CONNECTED" \/ is_public_chat(chat) => OffenderRemoved
    /\ chat.shared_state.version = 0 => chat'.connection_state = "CS_DISCONNECTED" /\ cb'.ret = -1
    /\ chat.shared_state.version > 0 /\ OffenderRemoved /\ Len(peers') >= 1 /\ cb'.ret = 0
          => SyncRequestToAnother /\ peers'[1].pending_sync_request

SanctionsCacheKept == chat'.sanctions_creds = chat.sanctions_creds

MaxPingSteps == 3

get_gc_confirmed_numpeers_chat(s) == 1 + Cardinality({j \in 1 .. Len(s.g) : s.g[j].confirmed})

\* do_gc_peer_state_sync asking for a sync on the first ping that shows the
\* chat behind.
do_gc_peer_state_sync_FirstPing(s, i, p) ==
    IF ~p.length_ok THEN s
    ELSE IF \/ p.num_peers > get_gc_confirmed_numpeers_chat(s)
            \/ p.sstate_version > s.c.shared_state.version
            \/ p.screds_version > s.c.sanctions_creds.version
            \/ p.topic_version > s.c.topic_info.version
    THEN [send_gc_sync_request_chat(s, i) EXCEPT !.g[i].pending_state_sync = FALSE]
    ELSE [s EXCEPT !.g[i].pending_state_sync = FALSE]

do_gc_peer_state_sync_chat(s, i, p) ==
    IF ~p.length_ok THEN s
    ELSE IF \/ p.num_peers > get_gc_confirmed_numpeers_chat(s)
            \/ p.sstate_version > s.c.shared_state.version
            \/ p.screds_version > s.c.sanctions_creds.version
            \/ p.topic_version > s.c.topic_info.version
    THEN IF s.g[i].pending_state_sync
         THEN [send_gc_sync_request_chat(s, i) EXCEPT !.g[i].pending_state_sync = FALSE]
         ELSE [s EXCEPT !.g[i].pending_state_sync = TRUE]
    ELSE [s EXCEPT !.g[i].pending_state_sync = FALSE]

handle_gc_ping_chat(s, i, p) ==
    IF ~p.length_ok THEN [s EXCEPT !.ret = -1]
    ELSE IF ~s.g[i].confirmed THEN [s EXCEPT !.ret = -1]
    ELSE [do_gc_peer_state_sync_chat(s, i, p) EXCEPT !.ret = 0]

PingOf(num_peers, sstate_version, screds_version, topic_version) ==
    [length_ok |-> TRUE, num_peers |-> num_peers, sstate_version |-> sstate_version,
     screds_version |-> screds_version, topic_version |-> topic_version]

\* Pings: one that is ahead in nothing, one ahead in each of the four
\* numbers alone, one level with the chat's versions, one of a wrong length.
PingPackets ==
    {PingOf(1, 0, 0, 0), PingOf(9, 0, 0, 0), PingOf(1, 9, 0, 0), PingOf(1, 0, 9, 0), PingOf(1, 0, 0, 9),
     PingOf(2, 1, 1, 1), [PingOf(9, 9, 9, 9) EXCEPT !.length_ok = FALSE]}

HandlePing(i, p) ==
    /\ ops < MaxPingSteps
    /\ i \in 1 .. Len(peers)
    /\ ArCommit(handle_gc_ping_chat(Ar, i, p), "handle_gc_ping", i, p)

PingTables ==
    ArtifactTables \cup {<<PeerOf("A", FALSE), [PeerOf("B", FALSE) EXCEPT !.confirmed = FALSE]>>}

PingInit ==
    /\ TransportIdle /\ ApiIdle
    /\ \E v \in {1, 2}, cv \in {0, 1} : chat = ChatOf("CS_CONNECTED", "GR_USER", v, "GI_PUBLIC", cv)
    /\ peers \in PingTables
    /\ chan = <<>>
    /\ lossy = {}
    /\ cb = [name |-> "none", peernumber |-> 0, packet |-> <<>>, ret |-> 0, fired |-> <<>>]
    /\ ops = 0

PingNext == \E i \in 1 .. 2, p \in PingPackets : HandlePing(i, p)

SpecPing == PingInit /\ [][PingNext]_vars

(***************************************************************************)
(* Part XI.  Properties.                                                   *)
(***************************************************************************)
PingStep == ops' = ops + 1 /\ cb'.name = "handle_gc_ping"

\* The ping of the step is taken: right length, confirmed sender.
PingTaken == cb'.packet.length_ok /\ peers[cb'.peernumber].confirmed

\* The ping of the step reports more than the chat has.
ShowsBehind ==
    \/ cb'.packet.num_peers > 1 + Cardinality({j \in 1 .. Len(peers) : peers[j].confirmed})
    \/ cb'.packet.sstate_version > chat.shared_state.version
    \/ cb'.packet.screds_version > chat.sanctions_creds.version
    \/ cb'.packet.topic_version > chat.topic_info.version

TwoPingRule ==
    PingStep =>
        LET i == cb'.peernumber
        IN  /\ Len(peers') = Len(peers)
            /\ \A j \in 1 .. Len(peers) : j # i => peers'[j] = peers[j]
            /\ chan' # chan
                   => /\ PingTaken /\ ShowsBehind /\ peers[i].pending_state_sync
                      /\ chan' = Append(chan, [to |-> peers[i].public_key,
                                               packet_type |-> "GP_SYNC_REQUEST",
                                               message_id |-> peers[i].send_message_id])
            /\ (PingTaken /\ ShowsBehind /\ ~peers[i].pending_state_sync)
                   => peers'[i].pending_state_sync /\ chan' = chan
            /\ (PingTaken /\ ~ShowsBehind)
                   => ~peers'[i].pending_state_sync /\ chan' = chan
            /\ ~PingTaken => peers' = peers /\ chan' = chan

\* C30: a ping leads to a SYNC_REQUEST only when it is taken, shows the
\* chat behind in the confirmed-peer count or in one of the three versions,
\* and finds pending_state_sync of its sender already set by an earlier
\* ping; a first such ping only sets the flag; a ping that shows the chat
\* not behind clears it; the flags of the other peers are not touched.
C30_TwoPingRule == [][TwoPingRule]_vars

\* The second ping of a peer that shows the chat behind has sent the
\* SYNC_REQUEST.
C30_Witness ==
    /\ cb.name = "handle_gc_ping"
    /\ ops >= 2
    /\ Len(chan) = 1
    /\ chan[1].packet_type = "GP_SYNC_REQUEST"
    /\ chan[1].to = peers[cb.peernumber].public_key

(***************************************************************************)
(* Part XII.  Sync requests and the responses to them.  The chat, its      *)
(* peer table and its sent packets are those of Part X; a connection also  *)
(* carries the handshake peer_add's callers schedule on it.                *)
(*   lossy  for each public key, the sync responses of that peer the chat  *)
(*          has taken as the answer to a request                           *)
(***************************************************************************)
MaxSyncSteps == 3

SyncKeys == {"A", "B", "C"}

\* The GC_Connection of a peer with the fields this part reads.
ConnOf(key, is_handshaked, is_confirmed, pending_sync_request) ==
    [public_key |-> key, confirmed |-> is_confirmed, handshaked |-> is_handshaked,
     pending_sync_request |-> pending_sync_request, pending_state_sync |-> FALSE,
     send_message_id |-> 1,
     pending_handshake_type |-> "none", is_pending_handshake_response |-> FALSE,
     pending_handshake |-> FALSE]

\* A peer is appended unless its key is in the table, gcc[0] included.
peer_add_chat(s, public_key) ==
    IF public_key = SelfKey \/ \E j \in 1 .. Len(s.g) : s.g[j].public_key = public_key
    THEN [s EXCEPT !.ret = -2]
    ELSE [s EXCEPT !.g = Append(@, ConnOf(public_key, FALSE, FALSE, FALSE)),
                   !.ret = Len(s.g) + 1]

self_gc_connected_chat(s) == [s EXCEPT !.c.connection_state = "CS_CONNECTED"]

send_gc_peer_exchange_chat(s, i) ==
    LET s1 == send_lossless_group_packet_chat(s, i, "GP_PEER_INFO_RESPONSE")
        s2 == send_lossless_group_packet_chat(s1, i, "GP_PEER_INFO_REQUEST")
    IN  [s2 EXCEPT !.ret = IF s1.ret = -1 \/ s2.ret = -1 THEN -1 ELSE 0]

handle_gc_invite_response_chat(s, i) == send_gc_sync_request_chat(s, i)

\* The loop over the keys of a response: the own key is skipped, a key of
\* the table adds nothing, a new peer gets a handshake scheduled.
RECURSIVE add_sync_peers(_, _, _)
add_sync_peers(s, keys, k) ==
    IF k > Len(keys) THEN s
    ELSE IF keys[k] = SelfKey THEN add_sync_peers(s, keys, k + 1)
    ELSE LET s1 == peer_add_chat(s, keys[k])
         IN  IF s1.ret < 0 THEN add_sync_peers(s, keys, k + 1)
             ELSE add_sync_peers(
                      [s1 EXCEPT !.g[s1.ret].pending_handshake_type = "HS_PEER_INFO_EXCHANGE",
                                 !.g[s1.ret].is_pending_handshake_response = FALSE,
                                 !.g[s1.ret].pending_handshake = TRUE],
                      keys, k + 1)

\* handle_gc_sync_response without the test of pending_sync_request.
handle_gc_sync_response_AnyTime(s, i, p) ==
    IF ~p.length_ok THEN [s EXCEPT !.ret = -1]
    ELSE LET s1 == [s EXCEPT !.g[i].pending_sync_request = FALSE]
         IN  IF p.num_peers > MAX_GC_NUM_PEERS THEN [s1 EXCEPT !.ret = -1]
             ELSE IF p.num_peers > 0 /\ ~p.unpack_ok THEN [s1 EXCEPT !.ret = -1]
             ELSE LET s2 == add_sync_peers(s1, p.keys, 1)
                      s3 == send_gc_peer_exchange_chat(self_gc_connected_chat(s2), i)
                  IN  [Callback(s3, "self_join", "", 0) EXCEPT !.ret = 0]

handle_gc_sync_response_chat(s, i, p) ==
    IF ~p.length_ok THEN [s EXCEPT !.ret = -1]
    ELSE IF ~s.g[i].pending_sync_request THEN [s EXCEPT !.ret = 0]
    ELSE LET s1 == [s EXCEPT !.g[i].pending_sync_request = FALSE]
         IN  IF p.num_peers > MAX_GC_NUM_PEERS THEN [s1 EXCEPT !.ret = -1]
             ELSE IF p.num_peers > 0 /\ ~p.unpack_ok THEN [s1 EXCEPT !.ret = -1]
             ELSE LET s2 == add_sync_peers(s1, p.keys, 1)
                      s3 == send_gc_peer_exchange_chat(self_gc_connected_chat(s2), i)
                  IN  [Callback(s3, "self_join", "", 0) EXCEPT !.ret = 0]

(***************************************************************************)
(* Part XII.  Packets and actions.                                         *)
(***************************************************************************)
SyncResponseOf(keys) == [length_ok |-> TRUE, num_peers |-> Len(keys), unpack_ok |-> TRUE, keys |-> keys]

\* Responses: no peers, the own key, a key of the table, a new key, a new
\* key after the own one; too short; a count over the cap; relays that do
\* not unpack.
SyncResponses ==
    {SyncResponseOf(<<>>), SyncResponseOf(<<SelfKey>>), SyncResponseOf(<<"B">>),
     SyncResponseOf(<<"C">>), SyncResponseOf(<<SelfKey, "C">>),
     [SyncResponseOf(<<"C">>) EXCEPT !.length_ok = FALSE],
     [SyncResponseOf(<<"C">>) EXCEPT !.num_peers = MAX_GC_NUM_PEERS + 1],
     [SyncResponseOf(<<"C">>) EXCEPT !.unpack_ok = FALSE]}

\* The sync responses taken from the sender of a handled response.
Taken(s, i) ==
    IF cb'.name = "handle_gc_sync_response" /\ cb'.packet.length_ok /\ peers[i].pending_sync_request
    THEN [lossy EXCEPT ![peers[i].public_key] = @ + 1]
    ELSE lossy

SyncCommit(s, name, i, p) ==
    /\ chat' = s.c
    /\ peers' = s.g
    /\ chan' = s.out
    /\ cb' = [name |-> name, peernumber |-> i, packet |-> p, ret |-> s.ret, fired |-> s.cb]
    /\ lossy' = Taken(s, i)
    /\ ops' = ops + 1
    /\ UNCHANGED <<tvars, avars>>

HandleInviteResponse(i) ==
    /\ ops < MaxSyncSteps
    /\ i \in 1 .. Len(peers) /\ peers[i].handshaked
    /\ SyncCommit(handle_gc_invite_response_chat(Ar, i), "handle_gc_invite_response", i, <<>>)

HandleSyncPing(i, p) ==
    /\ ops < MaxSyncSteps
    /\ i \in 1 .. Len(peers) /\ peers[i].handshaked
    /\ SyncCommit(handle_gc_ping_chat(Ar, i, p), "handle_gc_ping", i, p)

HandleSyncResponse(i, p) ==
    /\ ops < MaxSyncSteps
    /\ i \in 1 .. Len(peers) /\ peers[i].handshaked
    /\ SyncCommit(handle_gc_sync_response_chat(Ar, i, p), "handle_gc_sync_response", i, p)

SyncTables ==
    {<<ConnOf("A", TRUE, TRUE, FALSE)>>,
     <<ConnOf("A", TRUE, FALSE, FALSE), ConnOf("B", TRUE, TRUE, FALSE)>>}

SyncInit ==
    /\ TransportIdle /\ ApiIdle
    /\ \E cs \in {"CS_CONNECTING", "CS_CONNECTED"} : chat = ChatOf(cs, "GR_USER", 1, "GI_PUBLIC", 0)
    /\ peers \in SyncTables
    /\ chan = <<>>
    /\ lossy = [key \in SyncKeys |-> 0]
    /\ cb = [name |-> "none", peernumber |-> 0, packet |-> <<>>, ret |-> 0, fired |-> <<>>]
    /\ ops = 0

SyncNext ==
    \/ \E i \in 1 .. 2 : HandleInviteResponse(i)
    \/ \E i \in 1 .. 2, p \in {PingOf(1, 0, 0, 0), PingOf(9, 0, 0, 0)} : HandleSyncPing(i, p)
    \/ \E i \in 1 .. 2, p \in SyncResponses : HandleSyncResponse(i, p)

SpecSync == SyncInit /\ [][SyncNext]_vars

(***************************************************************************)
(* Part XII.  Properties.                                                  *)
(***************************************************************************)
SyncResponseStep == ops' = ops + 1 /\ cb'.name = "handle_gc_sync_response"

\* The SYNC_REQUESTs put into the window of the peer with the key.
RequestsSent(key) ==
    Cardinality({k \in 1 .. Len(chan) : chan[k].to = key /\ chan[k].packet_type = "GP_SYNC_REQUEST"})

\* The SYNC_REQUESTs to the peer that no taken response has answered.
Outstanding(key) == RequestsSent(key) - lossy[key]

Unsolicited == ~peers[cb'.peernumber].pending_sync_request

\* C31: a SYNC_RESPONSE of a peer whose pending_sync_request is false adds
\* no peer, schedules no handshake, leaves the connection state and fires
\* no self_join (it changes nothing of the chat, its table or its sent
\* packets); and on every connection at most one SYNC_REQUEST is sent and
\* not yet answered by a response the chat has taken.
C31_UnsolicitedResponseIgnored ==
    /\ [][SyncResponseStep /\ Unsolicited
            => /\ chat' = chat /\ peers' = peers /\ chan' = chan
               /\ cb'.fired = <<>>]_vars
    /\ [](\A key \in SyncKeys : Outstanding(key) \in {0, 1})

\* A response naming a new peer is ignored after the chat has taken the
\* answer to its request: the new peer is not in the table.
C31_Witness ==
    /\ cb.name = "handle_gc_sync_response" /\ cb.ret = 0 /\ cb.fired = <<>>
    /\ cb.packet = SyncResponseOf(<<"C">>)
    /\ \A j \in 1 .. Len(peers) : peers[j].public_key # "C"
    /\ \E key \in SyncKeys : lossy[key] = 1

(***************************************************************************)
(* Part XIII.  The broadcasts, custom packets and peer infos a chat        *)
(* receives.  The own peer is number 0 (its role is chat.role), the other  *)
(* peers are peers[1 ..]; a peer's record holds the fields of its          *)
(* GC_GroupPeer and its GC_Connection.  A public key names both halves of  *)
(* the extended key of its owner.                                          *)
(*   chat   the receiver's GC_Chat with moderator list and sanctions list  *)
(*   cb     the last handler call: its packet, what it returned, the       *)
(*          callbacks it ran                                               *)
(***************************************************************************)
MaxModSteps == 1

MemberOf(key, is_confirmed, role, ignore) ==
    [public_key |-> key, confirmed |-> is_confirmed, handshaked |-> TRUE,
     role |-> role, ignore |-> ignore, nick |-> key, status |-> 0,
     pending_sync_request |-> FALSE, pending_state_sync |-> FALSE,
     send_message_id |-> 1]

get_peernum_of_enc_pk_chat(s, public_key) ==
    IF public_key = s.c.self_public_key THEN 0
    ELSE IF \E j \in 1 .. Len(s.g) : s.g[j].public_key = public_key
    THEN CHOOSE j \in 1 .. Len(s.g) : s.g[j].public_key = public_key
    ELSE -1

get_peernum_of_sig_pk_chat(s, public_sig_key) == get_peernum_of_enc_pk_chat(s, public_sig_key)

peernumber_valid_chat(s, peernumber) == peernumber >= 0 /\ peernumber < Len(s.g) + 1

RoleAt(s, peernumber) == IF peernumber = 0 THEN s.c.role ELSE s.g[peernumber].role

PutRole(s, peernumber, role) ==
    IF peernumber = 0 THEN [s EXCEPT !.c.role = role] ELSE [s EXCEPT !.g[peernumber].role = role]

\* group_moderation.c: a sanction is an observer entry on a public key or
\* a ban entry with an id, signed by its issuer; a list is taken with its
\* credentials when the issuer and the signer of the credentials sign for
\* the chat.
is_observer_chat(c, public_key) ==
    \E k \in 1 .. Len(c.sanctions) : c.sanctions[k].type = "SA_OBSERVER" /\ c.sanctions[k].target = public_key

sanctions_list_add_entry_chat(s, sanction, creds) ==
    IF ~mod_list_verify_sig_pk(s.c, sanction.signer) \/ sanctions_list_check_integrity(s.c, creds) = -1
    THEN [s EXCEPT !.ret = -1]
    ELSE [s EXCEPT !.c.sanctions = Append(@, sanction), !.c.sanctions_creds = creds, !.ret = 0]

sanctions_list_remove_observer_chat(s, public_key, creds) ==
    IF ~is_observer_chat(s.c, public_key) \/ sanctions_list_check_integrity(s.c, creds) = -1
    THEN [s EXCEPT !.ret = -1]
    ELSE [s EXCEPT !.c.sanctions = SelectSeq(@, LAMBDA e : ~(e.type = "SA_OBSERVER" /\ e.target = public_key)),
                   !.c.sanctions_creds = creds, !.ret = 0]

sanctions_list_remove_ban_chat(s, ban_id, creds) ==
    IF ~(\E k \in 1 .. Len(s.c.sanctions) : s.c.sanctions[k].type = "SA_BAN" /\ s.c.sanctions[k].target = ban_id)
          \/ sanctions_list_check_integrity(s.c, creds) = -1
    THEN [s EXCEPT !.ret = -1]
    ELSE [s EXCEPT !.c.sanctions = SelectSeq(@, LAMBDA e : ~(e.type = "SA_BAN" /\ e.target = ban_id)),
                   !.c.sanctions_creds = creds, !.ret = 0]

\* The moderation callback names the peer that acted and its target.
Moderation(s, peernumber, target_peernum, mod_event) ==
    Callback(s, "moderation", <<peernumber, target_peernum>>, mod_event)

\* handle_bc_set_mod taking the broadcast of any sender.
handle_bc_set_mod_AnySender(s, i, p) ==
    IF ~p.length_ok THEN [s EXCEPT !.ret = -1]
    ELSE LET target_peernum == get_peernum_of_sig_pk_chat(s, p.target)
             listed == mod_list_index_of_sig_pk(s.c.mod_list, p.target)
         IN  IF i = target_peernum THEN [s EXCEPT !.ret = -1]
             ELSE IF ~p.add /\ ~listed THEN [s EXCEPT !.ret = -1]
             ELSE LET s1 == [s EXCEPT !.c.mod_list = IF p.add THEN mod_list_add_entry(@, p.target)
                                                     ELSE mod_list_remove_entry(@, p.target),
                                      !.ret = 0]
                  IN  IF ~peernumber_valid_chat(s1, target_peernum) THEN s1
                      ELSE Moderation(PutRole(s1, target_peernum, IF p.add THEN "GR_MODERATOR" ELSE "GR_USER"),
                                      i, target_peernum, IF p.add THEN "MV_MODERATOR" ELSE "MV_USER")

handle_bc_set_mod_chat(s, i, p) ==
    IF ~p.length_ok THEN [s EXCEPT !.ret = -1]
    ELSE IF s.g[i].role # "GR_FOUNDER" THEN [s EXCEPT !.ret = -1]
    ELSE LET target_peernum == get_peernum_of_sig_pk_chat(s, p.target)
             listed == mod_list_index_of_sig_pk(s.c.mod_list, p.target)
         IN  IF i = target_peernum THEN [s EXCEPT !.ret = -1]
             ELSE IF ~p.add /\ ~listed THEN [s EXCEPT !.ret = -1]
             ELSE LET s1 == [s EXCEPT !.c.mod_list = IF p.add THEN mod_list_add_entry(@, p.target)
                                                     ELSE mod_list_remove_entry(@, p.target),
                                      !.ret = 0]
                  IN  IF ~peernumber_valid_chat(s1, target_peernum) THEN s1
                      ELSE Moderation(PutRole(s1, target_peernum, IF p.add THEN "GR_MODERATOR" ELSE "GR_USER"),
                                      i, target_peernum, IF p.add THEN "MV_MODERATOR" ELSE "MV_USER")

handle_bc_set_observer_chat(s, i, p) ==
    IF ~p.length_ok THEN [s EXCEPT !.ret = -1]
    ELSE IF RoleNum(s.g[i].role) >= RoleNum("GR_USER") THEN [s EXCEPT !.ret = -1]
    ELSE IF mod_list_verify_sig_pk(s.c, p.target) THEN [s EXCEPT !.ret = -1]
    ELSE LET target_peernum == get_peernum_of_enc_pk_chat(s, p.target)
         IN  IF target_peernum = i THEN [s EXCEPT !.ret = -1]
             ELSE IF ~p.unpack_ok THEN [s EXCEPT !.ret = -1]
             ELSE LET s1 == IF p.add THEN sanctions_list_add_entry_chat(s, p.sanction, p.creds)
                            ELSE sanctions_list_remove_observer_chat(s, p.target, p.creds)
                  IN  IF s1.ret = -1 THEN s1
                      ELSE IF ~peernumber_valid_chat(s1, target_peernum) THEN s1
                      ELSE Moderation(PutRole(s1, target_peernum, IF p.add THEN "GR_OBSERVER" ELSE "GR_USER"),
                                      i, target_peernum, IF p.add THEN "MV_OBSERVER" ELSE "MV_USER")

\* group_delete: the chat is gone with its peer table.
group_delete_chat(s) == [s EXCEPT !.c.connection_state = "CS_NONE", !.g = <<>>]

handle_bc_remove_peer_chat(s, i, p) ==
    IF ~p.length_ok THEN [s EXCEPT !.ret = -1]
    ELSE IF RoleNum(s.g[i].role) >= RoleNum("GR_USER") THEN [s EXCEPT !.ret = -1]
    ELSE IF p.mod_event \notin {"MV_KICK", "MV_BAN"} THEN [s EXCEPT !.ret = -1]
    ELSE LET target_peernum == get_peernum_of_enc_pk_chat(s, p.target)
         IN  IF peernumber_valid_chat(s, target_peernum) /\ RoleAt(s, target_peernum) # "GR_USER"
             THEN [s EXCEPT !.ret = -1]
             ELSE IF target_peernum = 0
             THEN [group_delete_chat(Moderation(s, i, 0, p.mod_event)) EXCEPT !.ret = 0]
             ELSE LET s1 == IF p.mod_event # "MV_BAN" THEN [s EXCEPT !.ret = 0]
                            ELSE IF ~p.unpack_ok THEN [s EXCEPT !.ret = -1]
                            ELSE sanctions_list_add_entry_chat(s, p.sanction, p.creds)
                  IN  IF s1.ret = -1 THEN s1
                      ELSE IF target_peernum = -1 THEN [s1 EXCEPT !.ret = 0]
                      ELSE gc_peer_delete_chat(Moderation(s1, i, target_peernum, p.mod_event), target_peernum, "")

\* What sanctions_list_remove_ban returns is not looked at.
handle_bc_remove_ban_chat(s, i, p) ==
    IF ~p.length_ok THEN [s EXCEPT !.ret = -1]
    ELSE IF RoleNum(s.g[i].role) >= RoleNum("GR_USER") THEN [s EXCEPT !.ret = -1]
    ELSE IF ~p.unpack_ok THEN [s EXCEPT !.ret = -1]
    ELSE [sanctions_list_remove_ban_chat(s, p.target, p.creds) EXCEPT !.ret = 0]

GS_INVALID == 3

handle_bc_status_chat(s, i, p) ==
    IF ~p.length_ok THEN [s EXCEPT !.ret = -1]
    ELSE IF p.status >= GS_INVALID THEN [s EXCEPT !.ret = -1]
    ELSE [Callback(s, "status_change", i, p.status) EXCEPT !.g[i].status = p.status, !.ret = 0]

\* The peer that holds the nick, 0 for the own peer, -1 when nobody does.
get_nick_peernumber_chat(s, nick) ==
    IF s.c.nick = nick THEN 0
    ELSE IF \E j \in 1 .. Len(s.g) : s.g[j].nick = nick
    THEN CHOOSE j \in 1 .. Len(s.g) : s.g[j].nick = nick /\ \A k \in 1 .. (j - 1) : s.g[k].nick # nick
    ELSE -1

handle_bc_nick_chat(s, i, p) ==
    IF p.nick = "" \/ ~p.length_ok \/ get_nick_peernumber_chat(s, p.nick) # -1
    THEN gc_peer_delete_chat(s, i, "")
    ELSE [Callback(s, "nick_change", i, 0) EXCEPT !.g[i].nick = p.nick, !.ret = 0]

handle_bc_message_chat(s, i, p) ==
    IF ~p.length_ok THEN [s EXCEPT !.ret = -1]
    ELSE IF s.g[i].ignore \/ RoleNum(s.g[i].role) >= RoleNum("GR_OBSERVER") THEN [s EXCEPT !.ret = 0]
    ELSE [Callback(s, "message", i, 0) EXCEPT !.ret = 0]

handle_bc_private_message_chat(s, i, p) ==
    IF ~p.length_ok THEN [s EXCEPT !.ret = -1]
    ELSE IF s.g[i].ignore \/ RoleNum(s.g[i].role) >= RoleNum("GR_OBSERVER") THEN [s EXCEPT !.ret = 0]
    ELSE [Callback(s, "private_message", i, 0) EXCEPT !.ret = 0]

handle_gc_custom_packet_chat(s, i, p) ==
    IF ~p.length_ok THEN [s EXCEPT !.ret = -1]
    ELSE IF s.g[i].ignore \/ RoleNum(s.g[i].role) >= RoleNum("GR_OBSERVER") THEN [s EXCEPT !.ret = 0]
    ELSE [Callback(s, "custom_packet", i, 0) EXCEPT !.ret = 0]

handle_gc_peer_exit_chat(s, i, p) == gc_peer_delete_chat(s, i, "")

handle_gc_broadcast_chat(s, i, p) ==
    IF ~p.header_ok THEN [s EXCEPT !.ret = -1]
    ELSE IF s.c.connection_state # "CS_CONNECTED" THEN [s EXCEPT !.ret = -1]
    ELSE IF ~s.g[i].confirmed THEN [s EXCEPT !.ret = -1]
    ELSE CASE p.bc_type = "GM_STATUS" -> handle_bc_status_chat(s, i, p)
           [] p.bc_type = "GM_NICK" -> handle_bc_nick_chat(s, i, p)
           [] p.bc_type \in {"GM_PLAIN_MESSAGE", "GM_ACTION_MESSAGE"} -> handle_bc_message_chat(s, i, p)
           [] p.bc_type = "GM_PRVT_MESSAGE" -> handle_bc_private_message_chat(s, i, p)
           [] p.bc_type = "GM_PEER_EXIT" -> handle_gc_peer_exit_chat(s, i, p)
           [] p.bc_type = "GM_REMOVE_PEER" -> handle_bc_remove_peer_chat(s, i, p)
           [] p.bc_type = "GM_REMOVE_BAN" -> handle_bc_remove_ban_chat(s, i, p)
           [] p.bc_type = "GM_SET_MOD" -> handle_bc_set_mod_chat(s, i, p)
           [] p.bc_type = "GM_SET_OBSERVER" -> handle_bc_set_observer_chat(s, i, p)
           [] OTHER -> [s EXCEPT !.ret = -1]

\* ---- peer info ------------------------------------------------------------

\* The role of the peer stands against the founder key, the moderator
\* list and the sanctions list.
validate_gc_peer_role_chat(s, peernumber) ==
    LET role == RoleAt(s, peernumber)
        public_key == IF peernumber = 0 THEN s.c.self_public_key ELSE s.g[peernumber].public_key
    IN  CASE role = "GR_FOUNDER" -> IF s.c.shared_state.founder_public_key # public_key THEN -1 ELSE 0
          [] role = "GR_MODERATOR" -> IF ~mod_list_index_of_sig_pk(s.c.mod_list, public_key) THEN -1 ELSE 0
          [] role = "GR_USER" -> IF is_observer_chat(s.c, public_key) THEN -1 ELSE 0
          [] role = "GR_OBSERVER" -> IF ~is_observer_chat(s.c, public_key) /\ peernumber # 0 THEN -1 ELSE 0
          [] OTHER -> -1

\* The unpacked GC_GroupPeer replaces the one of the table.
peer_update_chat(s, i, peer) ==
    LET nick_num == get_nick_peernumber_chat(s, peer.nick)
    IN  IF peer.nick = "" THEN [s EXCEPT !.ret = -1]
        ELSE IF nick_num # -1 /\ nick_num # i
        THEN [gc_peer_delete_chat(Callback(s, "peer_exit", s.g[i].public_key, 0), i, "duplicate nick")
                 EXCEPT !.ret = -1]
        ELSE [s EXCEPT !.g[i].nick = peer.nick, !.g[i].role = peer.role, !.g[i].status = peer.status,
                       !.g[i].ignore = FALSE, !.ret = i]

handle_gc_peer_info_response_chat(s, i, p) ==
    IF ~p.length_ok THEN [s EXCEPT !.ret = -1]
    ELSE IF s.c.connection_state # "CS_CONNECTED" THEN [s EXCEPT !.ret = -1]
    ELSE IF ~s.g[i].confirmed /\ get_gc_confirmed_numpeers_chat(s) >= s.c.shared_state.maxpeers
    THEN [s EXCEPT !.ret = -1]
    ELSE IF ~PasswdAccepted(s.c, p.passwd) THEN [s EXCEPT !.ret = -1]
    ELSE IF ~p.unpack_ok THEN [s EXCEPT !.ret = -1]
    ELSE LET s1 == peer_update_chat(s, i, p)
         IN  IF s1.ret = -1 THEN s1
             ELSE IF validate_gc_peer_role_chat(s1, i) = -1
             THEN [gc_peer_delete_chat(s1, i, "") EXCEPT !.ret = -1]
             ELSE LET s2 == IF ~s1.g[i].confirmed
                            THEN Callback(s1, "peer_join", s1.g[i].public_key, 0) ELSE s1
                  IN  [s2 EXCEPT !.g[i].confirmed = TRUE, !.ret = 0]

(***************************************************************************)
(* Part XIII.  Packets and actions.                                        *)
(***************************************************************************)
ModKeys == {"A", "B", "X", SelfKey}

CredsOf(version, signer) == [version |-> version, signer |-> signer]

SanctionOf(type, target, signer) == [type |-> type, target |-> target, signer |-> signer]

BcOf(bc_type) ==
    [bc_type |-> bc_type, header_ok |-> TRUE, length_ok |-> TRUE, add |-> FALSE, target |-> "",
     mod_event |-> "", unpack_ok |-> TRUE, sanction |-> SanctionOf("", "", ""), creds |-> CredsOf(0, ""),
     status |-> 0, nick |-> ""]

SetModPackets == {[BcOf("GM_SET_MOD") EXCEPT !.add = a, !.target = t] : a \in BOOLEAN, t \in ModKeys}

\* The sanction and the credentials are signed by A, who moderates in some
\* chats and not in others.
SetObserverPackets ==
    {[BcOf("GM_SET_OBSERVER") EXCEPT !.add = a, !.target = t, !.sanction = SanctionOf("SA_OBSERVER", t, "A"),
                                     !.creds = CredsOf(2, "A")] : a \in BOOLEAN, t \in ModKeys}

RemovePeerPackets ==
    {[BcOf("GM_REMOVE_PEER") EXCEPT !.mod_event = e, !.target = t, !.sanction = SanctionOf("SA_BAN", "ban2", "A"),
                                    !.creds = CredsOf(2, "A")] : e \in {"MV_KICK", "MV_BAN", "MV_USER"}, t \in ModKeys}

RemoveBanPackets ==
    {[BcOf("GM_REMOVE_BAN") EXCEPT !.target = b, !.creds = CredsOf(2, "A")] : b \in {"ban1", "ban2"}}

TalkPackets ==
    {BcOf("GM_PLAIN_MESSAGE"), BcOf("GM_ACTION_MESSAGE"), BcOf("GM_PRVT_MESSAGE"), BcOf("GM_PEER_EXIT"),
     [BcOf("GM_PLAIN_MESSAGE") EXCEPT !.length_ok = FALSE],
     [BcOf("GM_PLAIN_MESSAGE") EXCEPT !.header_ok = FALSE],
     [BcOf("GM_STATUS") EXCEPT !.status = 1], [BcOf("GM_STATUS") EXCEPT !.status = GS_INVALID],
     [BcOf("GM_NICK") EXCEPT !.nick = "n"], [BcOf("GM_NICK") EXCEPT !.nick = "A"], BcOf("GM_NICK"),
     BcOf("GM_INVALID")}

BroadcastPackets == SetModPackets \cup SetObserverPackets \cup RemovePeerPackets \cup RemoveBanPackets \cup TalkPackets

CustomPackets == {[length_ok |-> l] : l \in BOOLEAN}

PeerInfoPackets ==
    {[length_ok |-> TRUE, passwd |-> <<>>, unpack_ok |-> TRUE, nick |-> n, role |-> r, status |-> 0] :
         n \in {"A", "B", "n", ""}, r \in {"GR_FOUNDER", "GR_MODERATOR", "GR_USER", "GR_OBSERVER", "GR_INVALID"}}
    \cup {[length_ok |-> l, passwd |-> <<>>, unpack_ok |-> ~l, nick |-> "n", role |-> "GR_USER", status |-> 0] :
              l \in BOOLEAN}

\* Topics of version 2 signed by A or by B.
RelayedTopics ==
    {[length_ok |-> TRUE, sig |-> [signer |-> k, over |-> TopicInfoOf(2, t, k)], topic_info |-> TopicInfoOf(2, t, k)] :
         k \in {"A", "B"}, t \in {<<"t">>, <<"u">>}}

\* The lossless dispatch hands over the packets of handshaked connections.
HandleBroadcast(i, p) ==
    /\ ops < MaxModSteps
    /\ i \in 1 .. Len(peers) /\ peers[i].handshaked
    /\ ArCommit(handle_gc_broadcast_chat(Ar, i, p), "handle_gc_broadcast", i, p)

\* A custom packet, lossless or lossy.
HandleCustomPacket(i, p) ==
    /\ ops < MaxModSteps
    /\ i \in 1 .. Len(peers) /\ peers[i].handshaked
    /\ ArCommit(handle_gc_custom_packet_chat(Ar, i, p), "handle_gc_custom_packet", i, p)

HandlePeerInfoResponse(i, p) ==
    /\ ops < MaxModSteps
    /\ i \in 1 .. Len(peers) /\ peers[i].handshaked
    /\ ArCommit(handle_gc_peer_info_response_chat(Ar, i, p), "handle_gc_peer_info_response", i, p)

HandleRelayedTopic(i, p) ==
    /\ ops < MaxModSteps
    /\ i \in 1 .. Len(peers) /\ peers[i].handshaked
    /\ ArCommit(handle_gc_topic_chat(Ar, i, p), "handle_gc_topic", i, p)

ModChatOf(connection_state, role, founder, mods, sanctions) ==
    [connection_state |-> connection_state, self_public_key |-> SelfKey, nick |-> SelfKey, role |-> role,
     shared_state |-> [version |-> 1, founder_public_key |-> founder, privacy_state |-> "GI_PUBLIC",
                       maxpeers |-> 10, passwd_len |-> 0, passwd |-> <<>>],
     mod_list |-> mods,
     sanctions |-> sanctions,
     sanctions_creds |-> CredsOf(1, founder),
     topic_info |-> TopicInfoOf(1, <<"t">>, founder),
     topic_sig |-> [signer |-> founder, over |-> TopicInfoOf(1, <<"t">>, founder)],
     confirmed_peers |-> {}]

\* Chats with their tables: every confirmed peer has the role that the
\* founder key, the moderator list and the sanctions list give its key; a
\* peer that is not confirmed yet has the role peer_add gave it.
ModInit ==
    /\ TransportIdle /\ ApiIdle
    /\ \/ /\ chat = ModChatOf("CS_CONNECTED", "GR_USER", "A", <<>>, <<>>)
          /\ peers \in {<<MemberOf("A", TRUE, "GR_FOUNDER", FALSE), MemberOf("B", TRUE, "GR_USER", FALSE)>>,
                        <<MemberOf("A", TRUE, "GR_FOUNDER", FALSE), MemberOf("B", FALSE, "GR_INVALID", FALSE)>>,
                        <<MemberOf("B", TRUE, "GR_USER", TRUE), MemberOf("A", TRUE, "GR_FOUNDER", FALSE)>>}
       \/ /\ chat = ModChatOf("CS_CONNECTED", "GR_USER", "A", <<"B">>, <<>>)
          /\ peers \in {<<MemberOf("A", TRUE, "GR_FOUNDER", FALSE), MemberOf("B", TRUE, "GR_MODERATOR", FALSE)>>,
                        <<MemberOf("A", TRUE, "GR_FOUNDER", FALSE), MemberOf("B", FALSE, "GR_INVALID", FALSE)>>}
       \/ /\ chat = ModChatOf("CS_CONNECTED", "GR_FOUNDER", SelfKey, <<"A">>, <<>>)
          /\ peers \in {<<MemberOf("A", TRUE, "GR_MODERATOR", FALSE), MemberOf("B", TRUE, "GR_USER", FALSE)>>,
                        <<MemberOf("B", FALSE, "GR_INVALID", FALSE), MemberOf("A", TRUE, "GR_MODERATOR", FALSE)>>}
       \/ /\ chat = ModChatOf("CS_CONNECTED", "GR_MODERATOR", "F", <<"A", SelfKey>>,
                              <<SanctionOf("SA_OBSERVER", "B", "A"), SanctionOf("SA_BAN", "ban1", "A")>>)
          /\ peers = <<MemberOf("A", TRUE, "GR_MODERATOR", FALSE), MemberOf("B", TRUE, "GR_OBSERVER", FALSE)>>
       \/ /\ chat = ModChatOf("CS_CONNECTING", "GR_USER", "A", <<>>, <<>>)
          /\ peers = <<MemberOf("A", TRUE, "GR_FOUNDER", FALSE), MemberOf("B", TRUE, "GR_USER", FALSE)>>
    /\ chan = <<>>
    /\ lossy = {}
    /\ cb = [name |-> "none", peernumber |-> 0, packet |-> <<>>, ret |-> 0, fired |-> <<>>]
    /\ ops = 0

ModNext ==
    \/ \E i \in 1 .. 2, p \in BroadcastPackets : HandleBroadcast(i, p)
    \/ \E i \in 1 .. 2, p \in CustomPackets : HandleCustomPacket(i, p)
    \/ \E i \in 1 .. 2, p \in PeerInfoPackets : HandlePeerInfoResponse(i, p)
    \/ \E i \in 1 .. 2, p \in RelayedTopics : HandleRelayedTopic(i, p)

SpecMod == ModInit /\ [][ModNext]_vars

(***************************************************************************)
(* Part XIII.  Properties.                                                 *)
(***************************************************************************)
HandlerStep(name) == ops' = ops + 1 /\ cb'.name = name

BroadcastStep(types) == HandlerStep("handle_gc_broadcast") /\ cb'.packet.bc_type \in types

\* The peer whose packet the step handles, as the table has it before.
SenderOfStep == peers[cb'.peernumber]

LacksRole ==
    \/ BroadcastStep({"GM_SET_MOD"}) /\ SenderOfStep.role # "GR_FOUNDER"
    \/ /\ BroadcastStep({"GM_SET_OBSERVER", "GM_REMOVE_PEER", "GM_REMOVE_BAN"})
       /\ SenderOfStep.role \notin {"GR_FOUNDER", "GR_MODERATOR"}

ModerationUnchanged ==
    /\ chat'.mod_list = chat.mod_list
    /\ chat'.sanctions = chat.sanctions /\ chat'.sanctions_creds = chat.sanctions_creds
    /\ chat'.role = chat.role /\ chat'.connection_state = chat.connection_state
    /\ peers' = peers

\* The target of the step's broadcast is a peer the receiver has as Founder
\* or Moderator, the own peer included.
TargetIsStaff ==
    \/ cb'.packet.target = SelfKey /\ chat.role \in {"GR_FOUNDER", "GR_MODERATOR"}
    \/ \E j \in 1 .. Len(peers) :
          peers[j].public_key = cb'.packet.target /\ peers[j].role \in {"GR_FOUNDER", "GR_MODERATOR"}

\* C32: a SET_MOD broadcast of a sender that the receiver does not have as
\* Founder, and a SET_OBSERVER, REMOVE_PEER or REMOVE_BAN broadcast of a
\* sender it has neither as Founder nor as Moderator, leaves the moderator
\* list, the sanctions list, the roles and the peer table as they are; a
\* REMOVE_PEER whose target the receiver has as Founder or Moderator, the
\* own peer included, removes nobody and leaves all of these as they are.
C32_ModerationNeedsRole ==
    [][/\ LacksRole => ModerationUnchanged
       /\ BroadcastStep({"GM_REMOVE_PEER"}) /\ TargetIsStaff => ModerationUnchanged]_vars

\* A moderator's SET_MOD is refused: the moderator list is as it was.
C32_Witness ==
    /\ cb.name = "handle_gc_broadcast" /\ cb.packet.bc_type = "GM_SET_MOD"
    /\ cb.packet.add /\ cb.packet.target = "X" /\ cb.ret = -1
    /\ peers[cb.peernumber].role = "GR_MODERATOR" /\ peers[cb.peernumber].confirmed
    /\ chat.connection_state = "CS_CONNECTED" /\ chat.mod_list = <<"B">>

\* The role matches what the receiver holds on the key, in both directions.
RoleMatches(c, public_key, role) ==
    LET founder == public_key = c.shared_state.founder_public_key
        moderator == mod_list_index_of_sig_pk(c.mod_list, public_key)
        observer == is_observer_chat(c, public_key)
    IN  /\ role = "GR_FOUNDER" <=> founder
        /\ role = "GR_MODERATOR" <=> moderator
        /\ role = "GR_OBSERVER" <=> observer
        /\ role = "GR_USER" <=> ~founder /\ ~moderator /\ ~observer

HoldsKey(g, public_key) == \E k \in 1 .. Len(g) : g[k].public_key = public_key

\* The response of the step got as far as the check of the role.
RoleChecked ==
    /\ cb'.packet.length_ok /\ cb'.packet.unpack_ok /\ chat.connection_state = "CS_CONNECTED"
    /\ cb'.packet.nick # ""
    /\ get_nick_peernumber_chat(Ar, cb'.packet.nick) \in {-1, cb'.peernumber}

\* C33: a PEER_INFO_RESPONSE confirms its sender only when the role it
\* claims is Founder exactly if the sender's key is the founder key,
\* Moderator exactly if the key is in the moderator list, Observer exactly
\* if the key is an observer of the sanctions list and User exactly if none
\* of these holds; a response whose role does not match gets its sender
\* deleted.
C33_RoleMatchesBothWays ==
    [][HandlerStep("handle_gc_peer_info_response")
        => /\ cb'.ret = 0 => RoleMatches(chat, SenderOfStep.public_key, cb'.packet.role)
           /\ RoleChecked /\ ~RoleMatches(chat, SenderOfStep.public_key, cb'.packet.role)
                 => ~HoldsKey(peers', SenderOfStep.public_key)]_vars

AppCallbacks ==
    {"message", "private_message", "custom_packet", "nick_change", "status_change", "moderation", "topic_change"}

FiredOfStep == {cb'.fired[k].name : k \in 1 .. Len(cb'.fired)}

\* C36: a handler runs a message, private_message, custom_packet,
\* nick_change, status_change, moderation or topic_change callback only for
\* the packet of a confirmed peer, and a message, private_message or
\* custom_packet callback only when that peer is no Observer and is not
\* ignored.
C36_CallbacksOnlyForConfirmed ==
    [][ops' = ops + 1 /\ cb'.peernumber \in 1 .. Len(peers)
        => /\ FiredOfStep \cap AppCallbacks # {} => SenderOfStep.confirmed
           /\ FiredOfStep \cap {"message", "private_message", "custom_packet"} # {}
                 => SenderOfStep.role # "GR_OBSERVER" /\ ~SenderOfStep.ignore]_vars

(***************************************************************************)
(* Part XIV.  The packets a chat takes in, by the public key of their      *)
(* plaintext header.  The peer table is kept with its slot 0: gcc[0] and   *)
(* group[0], the own peer, are the record `lossy`; peers[1 ..] are the     *)
(* other slots.  A key is a tuple: the all-zero key that memset leaves,    *)
(* the key of a crypto box between two long-term key pairs, or the key     *)
(* encrypt_precompute makes of a session key pair.                         *)
(*   chat   the receiver's GC_Chat                                         *)
(*   lossy  slot 0 of the table                                            *)
(*   cb     the last packet, what its dispatch returned, the handlers it   *)
(*          reached and the callbacks they ran                             *)
(***************************************************************************)
MaxInboundSteps == 2

ZeroKey == <<"zero">>

\* decrypt_data(sender_pk, self_sk, ...): the key both ends derive.
DhKey(sender_pk, receiver_pk) == <<"dh", sender_pk, receiver_pk>>

SessionKey(sender_session_pk) == <<"session", sender_session_pk>>

NoSlot == [public_key |-> "none"]

\* What peer_add leaves in a slot after its memset.
FreshSlot(public_key) ==
    [public_key |-> public_key, handshaked |-> FALSE, confirmed |-> FALSE,
     shared_key |-> ZeroKey, recv_message_id |-> 0, recv_ary |-> EmptyAry, send_message_id |-> 1,
     self_sent_shared_state_version |-> UINT32_MAX, friend_shared_state_version |-> UINT32_MAX,
     pending_handshake_type |-> "none", is_pending_handshake_response |-> FALSE,
     pending_handshake |-> FALSE, role |-> "GR_INVALID", ignore |-> FALSE]

\* The program around the handlers of this part.
Ib == [c |-> chat, g |-> peers, self |-> lossy, out |-> chan, cb |-> <<>>, ret |-> 0, handled |-> <<>>]

numpeers_tbl(s) == IF s.self = NoSlot THEN 0 ELSE Len(s.g) + 1

Gcc(s, n) == IF n = 0 THEN s.self ELSE s.g[n]

SetGcc(s, n, gconn) == IF n = 0 THEN [s EXCEPT !.self = gconn] ELSE [s EXCEPT !.g[n] = gconn]

\* A handler is entered for the peer number.
Enter(s, handler, n) == [s EXCEPT !.handled = Append(@, [handler |-> handler, peernumber |-> n])]

\* The loop starts at slot 0.
get_peernum_of_enc_pk_tbl(s, public_key) ==
    IF numpeers_tbl(s) = 0 THEN -1
    ELSE IF s.self.public_key = public_key THEN 0
    ELSE IF \E j \in 1 .. Len(s.g) : s.g[j].public_key = public_key
    THEN CHOOSE j \in 1 .. Len(s.g) : s.g[j].public_key = public_key
    ELSE -1

peer_add_tbl(s, public_key) ==
    IF get_peernum_of_enc_pk_tbl(s, public_key) # -1 THEN [s EXCEPT !.ret = -2]
    ELSE IF numpeers_tbl(s) = 0 THEN [s EXCEPT !.self = FreshSlot(public_key), !.ret = 0]
    ELSE [s EXCEPT !.g = Append(@, FreshSlot(public_key)), !.ret = Len(s.g) + 1]

\* Slot 0 is deleted like any other: the last slot takes its place.
gc_peer_delete_tbl(s, n, reason) ==
    IF n >= 1 THEN gc_peer_delete_chat(s, n, reason)
    ELSE IF s.c.connection_state \in {"CS_DISCONNECTED", "CS_CONNECTING"} /\ ~is_public_chat(s.c)
    THEN [s EXCEPT !.ret = -1]
    ELSE LET gconn == s.self
             last == Len(s.g)
             s1 == IF gconn.handshaked /\ ~is_peer_confirmed(s.c, gconn.public_key)
                   THEN [s EXCEPT !.c.confirmed_peers = @ \cup {gconn.public_key}]
                   ELSE s
             s2 == IF gconn.confirmed THEN Callback(s1, "peer_exit", gconn.public_key, 0) ELSE s1
         IN  IF last = 0 THEN [s2 EXCEPT !.self = NoSlot, !.ret = 0]
             ELSE [s2 EXCEPT !.self = s.g[last], !.g = SubSeq(s.g, 1, last - 1), !.ret = 0]

\* What gc_peer_delete returns is not looked at.
peer_reconnect_tbl(s, public_key) ==
    LET n == get_peernum_of_enc_pk_tbl(s, public_key)
    IN  IF n < 0 THEN [s EXCEPT !.ret = -1]
        ELSE peer_add_tbl(gc_peer_delete_tbl(s, n, ""), public_key)

send_lossless_group_packet_tbl(s, n, packet_type) ==
    IF ~Gcc(s, n).handshaked THEN [s EXCEPT !.ret = -1]
    ELSE [SetGcc(s, n, [Gcc(s, n) EXCEPT !.send_message_id = @ + 1])
             EXCEPT !.out = Append(@, [to |-> Gcc(s, n).public_key, packet_type |-> packet_type,
                                       message_id |-> Gcc(s, n).send_message_id]),
                    !.ret = 0]

\* A lossy packet is sent to a handshaked peer.
gc_send_message_ack_tbl(s, n) ==
    IF ~Gcc(s, n).handshaked THEN [s EXCEPT !.ret = -1]
    ELSE [s EXCEPT !.out = Append(@, [to |-> Gcc(s, n).public_key, packet_type |-> "GP_MESSAGE_ACK",
                                      message_id |-> 0]),
                   !.ret = 0]

send_gc_peer_exchange_tbl(s, n) ==
    LET s1 == send_lossless_group_packet_tbl(s, n, "GP_PEER_INFO_RESPONSE")
        s2 == send_lossless_group_packet_tbl(s1, n, "GP_PEER_INFO_REQUEST")
    IN  [s2 EXCEPT !.ret = IF s1.ret = -1 \/ s2.ret = -1 THEN -1 ELSE 0]

handle_gc_handshake_request_tbl(s, sender_pk, p) ==
    LET s0 == Enter(s, "handle_gc_handshake_request", get_peernum_of_enc_pk_tbl(s, sender_pk))
    IN
    IF ~p.length_ok THEN [s0 EXCEPT !.ret = -1]
    ELSE IF s0.c.connection_state = "CS_FAILED" THEN [s0 EXCEPT !.ret = -1]
    ELSE IF s0.c.shared_state.version > 0 /\ p.ip_banned /\ ~mod_list_verify_sig_pk(s0.c, sender_pk)
    THEN [s0 EXCEPT !.ret = -1]
    ELSE IF s0.c.connection_O_metre >= GC_NEW_PEER_CONNECTION_LIMIT
    THEN [s0 EXCEPT !.c.block_handshakes = TRUE, !.ret = -1]
    ELSE LET s1 == [s0 EXCEPT !.c.connection_O_metre = @ + 1]
             found == get_peernum_of_enc_pk_tbl(s1, sender_pk)
             s2 == IF found < 0
                   THEN IF is_public_chat(s1.c) \/ is_peer_confirmed(s1.c, sender_pk)
                        THEN peer_add_tbl(s1, sender_pk)
                        ELSE [s1 EXCEPT !.ret = -1]
                   ELSE IF Gcc(s1, found).handshaked
                   THEN peer_reconnect_tbl(s1, sender_pk)
                   ELSE [s1 EXCEPT !.ret = found]
             is_new_peer == found < 0 \/ Gcc(s1, found).handshaked
             peer_number == s2.ret
         IN  IF peer_number < 0 THEN [s2 EXCEPT !.ret = -1]
             ELSE IF ~p.nodes_ok \/ (~p.tcp_ok /\ is_new_peer)
             THEN IF is_new_peer
                  THEN [gc_peer_delete_tbl(s2, peer_number, "") EXCEPT !.ret = -1]
                  ELSE [s2 EXCEPT !.ret = -1]
             ELSE LET s3 == SetGcc(s2, peer_number,
                                [Gcc(s2, peer_number) EXCEPT
                                    !.shared_key = SessionKey(p.session_pk),
                                    !.friend_shared_state_version = p.state])
                  IN  IF p.join_type = "HJ_PUBLIC" /\ ~is_public_chat(s3.c)
                      THEN [gc_peer_delete_tbl(s3, peer_number, "join priv chat as public")
                               EXCEPT !.ret = -1]
                      ELSE [SetGcc(s3, peer_number,
                                [Gcc(s3, peer_number) EXCEPT
                                    !.recv_message_id = @ + 1,
                                    !.pending_handshake_type = p.request_type,
                                    !.is_pending_handshake_response = TRUE,
                                    !.pending_handshake = TRUE])
                               EXCEPT !.ret = peer_number]

\* handle_gc_handshake_response: the answer to the own request.
handle_gc_handshake_response_tbl(s, sender_pk, p) ==
    LET peernumber == get_peernum_of_enc_pk_tbl(s, sender_pk)
        s0 == Enter(s, "handle_gc_handshake_response", peernumber)
    IN
    IF ~p.length_ok THEN [s0 EXCEPT !.ret = -1]
    ELSE IF peernumber = -1 THEN [s0 EXCEPT !.ret = -1]
    ELSE LET s1 == SetGcc(s0, peernumber,
                       [Gcc(s0, peernumber) EXCEPT
                           !.shared_key = SessionKey(p.session_pk),
                           !.recv_message_id = @ + 1,
                           !.handshaked = TRUE,
                           !.pending_handshake = FALSE])
             s2 == send_lossless_group_packet_tbl(s1, peernumber, "GP_HS_RESPONSE_ACK")
         IN  CASE p.request_type = "HS_INVITE_REQUEST" ->
                    LET s3 == SetGcc(s2, peernumber,
                                  [Gcc(s2, peernumber) EXCEPT !.friend_shared_state_version = p.state])
                        gconn == Gcc(s3, peernumber)
                    IN  IF \/ U32Less(gconn.friend_shared_state_version, gconn.self_sent_shared_state_version)
                           \/ /\ gconn.friend_shared_state_version = gconn.self_sent_shared_state_version
                              /\ id_cmp(s3.c.self_public_key, gconn.public_key) > 0
                        THEN [s3 EXCEPT !.ret = peernumber]
                        ELSE LET s4 == send_lossless_group_packet_tbl(s3, peernumber, "GP_INVITE_REQUEST")
                             IN  [s4 EXCEPT !.ret = IF s4.ret = -1 THEN -1 ELSE peernumber]
               [] p.request_type = "HS_PEER_INFO_EXCHANGE" ->
                    LET s4 == send_gc_peer_exchange_tbl(s2, peernumber)
                    IN  [s4 EXCEPT !.ret = IF s4.ret = -1 THEN -1 ELSE peernumber]
               [] OTHER -> [s2 EXCEPT !.ret = -1]

\* uwrap_group_handshake_packet opens the box of the sender's public key
\* and the own secret key.
handle_gc_handshake_packet_tbl(s, p) ==
    IF ~p.packet_ok THEN [s EXCEPT !.ret = -1]
    ELSE IF p.enc_key # DhKey(p.sender_pk, s.c.self_public_key) THEN [s EXCEPT !.ret = -1]
    ELSE IF ~p.hash_ok THEN [s EXCEPT !.ret = -1]
    ELSE IF p.handshake_type = "GH_REQUEST" THEN handle_gc_handshake_request_tbl(s, p.sender_pk, p)
    ELSE IF p.handshake_type = "GH_RESPONSE" THEN handle_gc_handshake_response_tbl(s, p.sender_pk, p)
    ELSE [s EXCEPT !.ret = -1]

handle_gc_hs_response_ack_tbl(s, n) ==
    LET s0 == Enter(s, "handle_gc_hs_response_ack", n)
        s1 == SetGcc(s0, n, [Gcc(s0, n) EXCEPT !.handshaked = TRUE, !.pending_handshake = FALSE])
        gconn == Gcc(s1, n)
    IN  IF \/ U32Less(gconn.self_sent_shared_state_version, gconn.friend_shared_state_version)
           \/ /\ gconn.friend_shared_state_version = gconn.self_sent_shared_state_version
              /\ id_cmp(s1.c.self_public_key, gconn.public_key) > 0
        THEN LET s2 == send_lossless_group_packet_tbl(s1, n, "GP_INVITE_REQUEST")
             IN  [s2 EXCEPT !.ret = IF s2.ret = -1 THEN -1 ELSE 0]
        ELSE [s1 EXCEPT !.ret = 0]

handle_gc_custom_packet_tbl(s, n, p) ==
    LET s0 == Enter(s, "handle_gc_custom_packet", n)
    IN  IF ~p.data_ok THEN [s0 EXCEPT !.ret = -1]
        ELSE IF Gcc(s0, n).ignore \/ RoleNum(Gcc(s0, n).role) >= RoleNum("GR_OBSERVER") THEN [s0 EXCEPT !.ret = 0]
        ELSE [Callback(s0, "custom_packet", n, 0) EXCEPT !.ret = 0]

\* The packet types of this part; the other types have their handlers in
\* the parts above.
handle_gc_lossless_helper_tbl(s, n, p) ==
    CASE p.packet_type = "GP_HS_RESPONSE_ACK" -> handle_gc_hs_response_ack_tbl(s, n)
      [] p.packet_type = "GP_CUSTOM_PACKET" -> handle_gc_custom_packet_tbl(s, n, p)
      [] OTHER -> [s EXCEPT !.ret = -1]

\* gcc_check_recv_ary (group_connection.c): the packets of recv_ary that
\* follow the cursor go to handle_gc_lossless_helper in order; it stops at
\* a handler that fails or when the peer is gone.
RECURSIVE gcc_check_recv_ary_tbl(_, _, _)
gcc_check_recv_ary_tbl(s, public_key, data_ok) ==
    LET n == get_peernum_of_enc_pk_tbl(s, public_key)
    IN  IF n = -1 THEN s
        ELSE LET gconn == Gcc(s, n)
                 idx == get_ary_index(gconn.recv_message_id + 1)
                 e == RecvSlot(gconn.recv_ary, idx)
             IN  IF e.message_id # gconn.recv_message_id + 1 THEN s
                 ELSE LET s1 == handle_gc_lossless_helper_tbl(s, n, [packet_type |-> e.packet_type, data_ok |-> data_ok])
                          m == get_peernum_of_enc_pk_tbl(s1, public_key)
                      IN  IF s1.ret = -1 \/ m = -1 THEN s1
                          ELSE gcc_check_recv_ary_tbl(
                                   SetGcc(s1, m, [Gcc(s1, m) EXCEPT !.recv_message_id = @ + 1,
                                                                    !.recv_ary = ClearSlot(@, idx)]),
                                   public_key, data_ok)

\* unwrap_group_packet opens the packet with the shared key of the slot.
handle_gc_lossless_message_tbl(s, p) ==
    LET peernumber == get_peernum_of_enc_pk_tbl(s, p.sender_pk)
    IN  IF ~p.packet_ok THEN [s EXCEPT !.ret = -1]
        ELSE IF peernumber = -1 THEN [s EXCEPT !.ret = -1]
        ELSE IF p.enc_key # Gcc(s, peernumber).shared_key THEN [s EXCEPT !.ret = -1]
        ELSE IF p.packet_type # "GP_HS_RESPONSE_ACK" /\ ~Gcc(s, peernumber).handshaked
        THEN [s EXCEPT !.ret = -1]
        ELSE IF ~p.hash_ok THEN [s EXCEPT !.ret = -1]
        ELSE LET gconn == Gcc(s, peernumber)
                 r == gcc_handle_recv_message(gconn.recv_message_id, gconn.recv_ary, p)
                 s1 == SetGcc(s, peernumber, [gconn EXCEPT !.recv_message_id = r.recv_message_id,
                                                            !.recv_ary = r.recv_ary])
             IN  IF r.ret = -1 THEN [s1 EXCEPT !.ret = -1]
                 ELSE IF r.ret \in {0, 1} THEN gc_send_message_ack_tbl(s1, peernumber)
                 ELSE LET s2 == handle_gc_lossless_helper_tbl(s1, peernumber, p)
                          again == get_peernum_of_enc_pk_tbl(s2, p.sender_pk)
                      IN  IF s2.ret = -1 THEN s2
                          ELSE IF again = -1 THEN s2
                          ELSE [gcc_check_recv_ary_tbl(gc_send_message_ack_tbl(s2, again), p.sender_pk, p.data_ok)
                                   EXCEPT !.ret = s2.ret]

handle_gc_lossy_message_tbl(s, p) ==
    LET peernumber == get_peernum_of_enc_pk_tbl(s, p.sender_pk)
    IN  IF ~p.packet_ok THEN [s EXCEPT !.ret = -1]
        ELSE IF peernumber = -1 THEN [s EXCEPT !.ret = -1]
        ELSE IF ~Gcc(s, peernumber).handshaked THEN [s EXCEPT !.ret = -1]
        ELSE IF p.enc_key # Gcc(s, peernumber).shared_key THEN [s EXCEPT !.ret = -1]
        ELSE IF ~p.hash_ok THEN [s EXCEPT !.ret = -1]
        ELSE IF p.packet_type = "GP_CUSTOM_PACKET" THEN handle_gc_custom_packet_tbl(s, peernumber, p)
        ELSE [s EXCEPT !.ret = -1]

(***************************************************************************)
(* Part XIV.  Packets and actions.                                         *)
(***************************************************************************)
\* A handshake packet of the sender, in the box of the key pair of `from`
\* and the receiver's public key; "zero" is the all-zero key.
HsPacketOf(sender_pk, from, handshake_type, join_type, request_type) ==
    [sender_pk |-> sender_pk,
     enc_key |-> IF from = "zero" THEN ZeroKey ELSE DhKey(from, SelfKey),
     packet_ok |-> TRUE, hash_ok |-> TRUE, length_ok |-> TRUE,
     handshake_type |-> handshake_type, join_type |-> join_type, request_type |-> request_type,
     session_pk |-> sender_pk, state |-> U32(1), ip_banned |-> FALSE, nodes_ok |-> TRUE, tcp_ok |-> TRUE]

\* Nobody but the owner of a key pair makes the box of its secret key: the
\* packets under the own public key come in the zero key or in the box of
\* another key pair.
HandshakePackets ==
    {HsPacketOf(k, k, "GH_REQUEST", j, "HS_INVITE_REQUEST") : k \in {"A", "B"}, j \in JoinTypes}
    \cup {HsPacketOf(SelfKey, f, "GH_REQUEST", "HJ_PRIVATE", "HS_INVITE_REQUEST") : f \in {"zero", "A"}}
    \cup {[HsPacketOf("B", "B", "GH_REQUEST", "HJ_PRIVATE", "HS_INVITE_REQUEST") EXCEPT !.nodes_ok = FALSE],
          [HsPacketOf("B", "B", "GH_REQUEST", "HJ_PRIVATE", "HS_INVITE_REQUEST") EXCEPT !.tcp_ok = FALSE],
          [HsPacketOf("B", "B", "GH_REQUEST", "HJ_PRIVATE", "HS_INVITE_REQUEST") EXCEPT !.ip_banned = TRUE],
          [HsPacketOf("B", "B", "GH_REQUEST", "HJ_PRIVATE", "HS_INVITE_REQUEST") EXCEPT !.length_ok = FALSE],
          [HsPacketOf("B", "B", "GH_REQUEST", "HJ_PRIVATE", "HS_INVITE_REQUEST") EXCEPT !.hash_ok = FALSE],
          [HsPacketOf("B", "B", "GH_REQUEST", "HJ_PRIVATE", "HS_INVITE_REQUEST") EXCEPT !.packet_ok = FALSE],
          HsPacketOf("B", "B", "GH_INVALID", "HJ_PRIVATE", "HS_INVITE_REQUEST")}
    \cup {HsPacketOf(k, k, "GH_RESPONSE", "HJ_PRIVATE", r) :
              k \in {"A", "B"}, r \in {"HS_INVITE_REQUEST", "HS_PEER_INFO_EXCHANGE", "HS_INVALID"}}
    \cup {HsPacketOf(SelfKey, "zero", "GH_RESPONSE", "HJ_PRIVATE", "HS_INVITE_REQUEST")}

GroupPacketOf(sender_pk, enc_key, packet_type, message_id) ==
    [sender_pk |-> sender_pk, enc_key |-> enc_key, packet_ok |-> TRUE, hash_ok |-> TRUE, data_ok |-> TRUE,
     packet_type |-> packet_type, message_id |-> message_id]

LosslessPackets ==
    {GroupPacketOf(k, e, t, id) : k \in {SelfKey, "A"}, e \in {ZeroKey, SessionKey("A")},
                                  t \in {"GP_HS_RESPONSE_ACK", "GP_CUSTOM_PACKET"}, id \in 1 .. 2}
    \cup {GroupPacketOf("B", ZeroKey, "GP_HS_RESPONSE_ACK", 1),
          GroupPacketOf("A", SessionKey("A"), "GP_INVALID", 2),
          [GroupPacketOf(SelfKey, ZeroKey, "GP_HS_RESPONSE_ACK", 1) EXCEPT !.hash_ok = FALSE],
          [GroupPacketOf(SelfKey, ZeroKey, "GP_HS_RESPONSE_ACK", 1) EXCEPT !.packet_ok = FALSE],
          [GroupPacketOf("A", SessionKey("A"), "GP_CUSTOM_PACKET", 2) EXCEPT !.data_ok = FALSE]}

LossyPackets ==
    {GroupPacketOf(k, e, "GP_CUSTOM_PACKET", 0) : k \in {SelfKey, "A"}, e \in {ZeroKey, SessionKey("A")}}
    \cup {GroupPacketOf("A", SessionKey("A"), "GP_INVALID", 0),
          [GroupPacketOf("A", SessionKey("A"), "GP_CUSTOM_PACKET", 0) EXCEPT !.packet_ok = FALSE],
          [GroupPacketOf("A", SessionKey("A"), "GP_CUSTOM_PACKET", 0) EXCEPT !.hash_ok = FALSE]}

InCommit(s, name, p) ==
    /\ chat' = s.c
    /\ peers' = s.g
    /\ lossy' = s.self
    /\ chan' = s.out
    /\ cb' = [name |-> name, packet |-> p, ret |-> s.ret, fired |-> s.cb, handled |-> s.handled]
    /\ ops' = ops + 1
    /\ UNCHANGED <<tvars, avars>>

HandleHandshakePacket(p) ==
    /\ ops < MaxInboundSteps
    /\ InCommit(handle_gc_handshake_packet_tbl(Ib, p), "handle_gc_handshake_packet", p)

HandleLosslessPacket(p) ==
    /\ ops < MaxInboundSteps
    /\ InCommit(handle_gc_lossless_message_tbl(Ib, p), "handle_gc_lossless_message", p)

HandleLossyPacket(p) ==
    /\ ops < MaxInboundSteps
    /\ InCommit(handle_gc_lossy_message_tbl(Ib, p), "handle_gc_lossy_message", p)

InChatOf(connection_state, role, privacy_state, founder, ring) ==
    [connection_state |-> connection_state, self_public_key |-> SelfKey, role |-> role,
     shared_state |-> [version |-> 1, founder_public_key |-> founder, privacy_state |-> privacy_state],
     mod_list |-> <<>>, confirmed_peers |-> ring,
     connection_O_metre |-> 0, block_handshakes |-> FALSE]

\* create_new_group: slot 0 is the own peer, confirmed and not handshaked.
SelfSlot(role) == [FreshSlot(SelfKey) EXCEPT !.confirmed = TRUE, !.role = role]

\* A peer after its handshake and its peer info.
KnownSlot(public_key) ==
    [FreshSlot(public_key) EXCEPT !.handshaked = TRUE, !.confirmed = TRUE, !.role = "GR_USER",
                                  !.shared_key = SessionKey(public_key), !.recv_message_id = 1,
                                  !.send_message_id = 2,
                                  !.self_sent_shared_state_version = U32(1),
                                  !.friend_shared_state_version = U32(1)]

\* Public and private chats, connected or not, whose ring is empty or holds
\* B, a peer that left; A is in the table, after its handshake or before.
InboundInit ==
    /\ TransportIdle /\ ApiIdle
    /\ \/ /\ \E pr \in {"GI_PUBLIC", "GI_PRIVATE"}, ring \in {{}, {"B"}} :
                chat = InChatOf("CS_CONNECTED", "GR_USER", pr, "F", ring)
          /\ peers = <<KnownSlot("A")>>
       \/ /\ chat = InChatOf("CS_DISCONNECTED", "GR_USER", "GI_PRIVATE", "F", {"B"})
          /\ peers = <<KnownSlot("A")>>
       \/ /\ chat = InChatOf("CS_CONNECTING", "GR_USER", "GI_PRIVATE", "F", {})
          /\ peers = <<FreshSlot("A")>>
       \/ /\ chat \in {InChatOf("CS_FAILED", "GR_USER", "GI_PUBLIC", "F", {}),
                       [InChatOf("CS_CONNECTED", "GR_FOUNDER", "GI_PUBLIC", SelfKey, {})
                           EXCEPT !.connection_O_metre = GC_NEW_PEER_CONNECTION_LIMIT]}
          /\ peers = <<>>
    /\ lossy = SelfSlot(chat.role)
    /\ chan = <<>>
    /\ cb = [name |-> "none", packet |-> <<>>, ret |-> 0, fired |-> <<>>, handled |-> <<>>]
    /\ ops = 0

InboundNext ==
    \/ \E p \in HandshakePackets : HandleHandshakePacket(p)
    \/ \E p \in LosslessPackets : HandleLosslessPacket(p)
    \/ \E p \in LossyPackets : HandleLossyPacket(p)

SpecInbound == InboundInit /\ [][InboundNext]_vars

(***************************************************************************)
(* Part XIV.  Properties.                                                  *)
(***************************************************************************)
InboundStep == ops' = ops + 1 /\ cb'.name # "none"

\* The step's packet is a handshake request that its handler has got.
RequestStep ==
    /\ InboundStep /\ cb'.name = "handle_gc_handshake_packet"
    /\ \E k \in 1 .. Len(cb'.handled) : cb'.handled[k].handler = "handle_gc_handshake_request"

SenderKnown == get_peernum_of_enc_pk_tbl(Ib, cb'.packet.sender_pk) # -1

\* The request passes every test that stands before the join type, the
\* reconnect of a handshaked peer included.
Admitted ==
    /\ cb'.packet.length_ok /\ cb'.packet.nodes_ok /\ cb'.packet.tcp_ok
    /\ chat.connection_state # "CS_FAILED"
    /\ ~(cb'.packet.ip_banned /\ ~mod_list_verify_sig_pk(chat, cb'.packet.sender_pk))
    /\ chat.connection_O_metre < GC_NEW_PEER_CONNECTION_LIMIT
    /\ SenderKnown \/ is_peer_confirmed(chat, cb'.packet.sender_pk)
    /\ SenderKnown /\ Gcc(Ib, get_peernum_of_enc_pk_tbl(Ib, cb'.packet.sender_pk)).handshaked
          => chat.connection_state \notin {"CS_DISCONNECTED", "CS_CONNECTING"}

\* C34: in a chat that is not public, a handshake request of a key that is
\* not in the table adds a peer only when the key is in confirmed_peers;
\* of any other unknown key it leaves the table as it is, with no response
\* scheduled; and a request with join type HJ_PUBLIC that passes the tests
\* before the join type returns -1 and leaves no peer with its key in the
\* table.
C34_RingGatesPrivateChat ==
    [][RequestStep /\ ~is_public_chat(chat)
        => /\ ~SenderKnown /\ HoldsKey(peers', cb'.packet.sender_pk)
                 => is_peer_confirmed(chat, cb'.packet.sender_pk)
           /\ ~SenderKnown /\ ~is_peer_confirmed(chat, cb'.packet.sender_pk)
                 => peers' = peers /\ lossy' = lossy /\ chan' = chan
           /\ cb'.packet.join_type = "HJ_PUBLIC" /\ Admitted
                 => cb'.ret = -1 /\ ~HoldsKey(peers', cb'.packet.sender_pk)]_vars

\* C35: slot 0 never becomes handshaked, and a packet with the own public
\* key in its header reaches no handler and changes nothing of the chat,
\* its table or its sent packets.
C35_NothingFromOwnKey ==
    /\ [](lossy # NoSlot => ~lossy.handshaked)
    /\ [][InboundStep /\ cb'.packet.sender_pk = SelfKey
            => /\ cb'.handled = <<>> /\ cb'.fired = <<>>
               /\ chat' = chat /\ peers' = peers /\ lossy' = lossy /\ chan' = chan]_vars

(***************************************************************************)
(* Part XV.  do_gc and the limiter of new connections: the chat of F is    *)
(* ticked in each of its connection states while handshake requests come   *)
(* in and time goes by.  The table is the one of Part II, which holds no     *)
(* time of a pending handshake.                                            *)
(***************************************************************************)
MaxTickRequests == 2

RECURSIVE do_peer_connections_tick(_, _)
\* The peers that sent no ping for too long are deleted, one after another.
do_peer_connections_tick(s, timed_out) ==
    IF timed_out = {} THEN s
    ELSE LET k == CHOOSE x \in timed_out : TRUE
         IN  do_peer_connections_tick(IF s.pt[k].present THEN gc_peer_delete(s, k, "Timed out") ELSE s,
                                 timed_out \ {k})

\* group_delete as do_gc sees it: no chat and no table are left.
group_delete_tick(s) == [s EXCEPT !.c.connection_state = "CS_NONE", !.pt = NoPeers(s.n)]

\* do_gc for one chat.  ping_due and join_timeout are what is_timeout says
\* of the last ping sent and the last join attempt.
do_gc_tick(s, ping_due, timed_out, join_timeout) ==
    CASE s.c.connection_state = "CS_CONNECTED" ->
            do_new_connection_cooldown(
                do_peer_connections_tick(IF ping_due THEN ping_group(s) ELSE s, timed_out))
      [] s.c.connection_state = "CS_CONNECTING" ->
            IF join_timeout THEN [s EXCEPT !.c.connection_state = "CS_DISCONNECTED"] ELSE s
      [] s.c.connection_state = "CS_DISCONNECTED" ->
            IF (\E k \in Others(s.n) : s.pt[k].present) /\ join_timeout
            THEN [s EXCEPT !.c.connection_state = "CS_CONNECTING"]
            ELSE s
      [] s.c.connection_state = "CS_CLOSING" -> group_delete_tick(s)
      [] OTHER -> s

DoGcTick(n, ping_due, timed_out, join_timeout) ==
    /\ Commit(do_gc_tick(St(n), ping_due, timed_out, join_timeout))
    /\ UNCHANGED ops

\* A chat in one of its connection states, its counter at zero or one
\* request below the limit.
TickInit ==
    /\ TransportIdle
    /\ ApiIdle
    /\ \E privacy_state \in {"GI_PUBLIC", "GI_PRIVATE"}, ring \in {{}, {"J"}},
          connection_state \in {"CS_CONNECTED", "CS_CONNECTING", "CS_DISCONNECTED", "CS_FAILED"},
          metre \in {0, GC_NEW_PEER_CONNECTION_LIMIT - 1} :
          chat = [n \in Nodes |->
                    IF n = "F"
                    THEN [FounderChat(3, <<>>, privacy_state, ring) EXCEPT
                             !.connection_state = connection_state, !.connection_O_metre = metre]
                    ELSE JoinerChat("j", <<>>)]
    /\ peers = [n \in Nodes |-> NoPeers(n)]
    /\ chan = [pr \in {<<"F", "J">>, <<"J", "F">>} |-> <<>>]
    /\ lossy = {}
    /\ cb = [n \in Nodes |-> <<>>]
    /\ ops = MaxTickRequests

TickNext ==
    \/ \E k \in Others("F"), join_type \in JoinTypes : HandshakeRequest("F", k, join_type)
    \/ \E ping_due \in BOOLEAN, timed_out \in SUBSET Others("F"), join_timeout \in BOOLEAN :
          DoGcTick("F", ping_due, timed_out, join_timeout)
    \/ Second("F")

\* do_gc runs in every iteration of the program's loop and the clock goes on.
TickFairness ==
    /\ WF_vars(\E ping_due \in BOOLEAN, timed_out \in SUBSET Others("F"), join_timeout \in BOOLEAN :
                  DoGcTick("F", ping_due, timed_out, join_timeout))
    /\ WF_vars(Second("F"))

SpecTick == TickInit /\ [][TickNext]_vars /\ TickFairness

NoMoreRequests == ops = 0

CooledDown == chat["F"].connection_O_metre = 0 /\ ~chat["F"].block_handshakes

\* The counter goes down by one in a step or stays.
CountsDownByOne ==
    [][ops' = ops =>
          /\ chat'["F"].connection_O_metre \in {chat["F"].connection_O_metre, chat["F"].connection_O_metre - 1}
          /\ chat'["F"].block_handshakes # chat["F"].block_handshakes
                => chat'["F"].connection_O_metre = 0 /\ ~chat'["F"].block_handshakes]_vars

\* C38: in every connection state of a ticked chat, once handshake requests
\* have stopped arriving the counter of new connections goes down by one a
\* second until it is zero and block_handshakes is cleared then: a chat that
\* has reached the limit takes handshake requests again in the end.
C38_CooldownInEveryState ==
    /\ CountsDownByOne
    /\ NoMoreRequests ~> CooledDown

(***************************************************************************)
(* Part XVI.  The chats of a session and the invites of friends.           *)
(*   gc     the GC_Session: its array of chats, the invite packets it has  *)
(*          handed to the friend connection, the next chat id to draw     *)
(*   call   the last call and its arguments, ret what it returned          *)
(* A chat is private; a peer is its public key with the relays saved for   *)
(* it.  Group numbers and ring indices count from 0 as in the program.     *)
(***************************************************************************)
MaxInviteSteps == 5

MaxChats == 2

MaxChatId == 3

\* The length of saved_invites.
MAX_GC_SAVED_INVITES == 2

FriendNumbers == 0 .. 2

\* The friends 0 and 1 exist.
friend_not_valid(friendnumber) == friendnumber \notin {0, 1}

\* memset(&chat, 0, sizeof(GC_Chat))
ZeroChat ==
    [connection_state |-> "CS_NONE", groupnumber |-> 0, chat_id |-> 0,
     saved_invites |-> [k \in 1 .. MAX_GC_SAVED_INVITES |-> 0], saved_invites_index |-> 0,
     peers |-> <<>>]

RECURSIVE BytesOfOnes(_)
\* The value of n bytes 0xff below zero bytes.
BytesOfOnes(n) == IF n = 0 THEN 0 ELSE 256 * BytesOfOnes(n - 1) + 255

\* memset(&saved_invites, -1, MAX_GC_SAVED_INVITES) over elements of size
\* bytes each: the first MAX_GC_SAVED_INVITES bytes of the array are 0xff.
memset_saved_invites(size) ==
    [k \in 1 .. MAX_GC_SAVED_INVITES |->
        LET covered == MIN(size, Max(0, MAX_GC_SAVED_INVITES - (k - 1) * size))
        IN  IF covered = size THEN -1 ELSE BytesOfOnes(covered)]

ChatAt(c, groupnumber) == c.chats[groupnumber + 1]

groupnumber_valid(c, groupnumber) ==
    /\ groupnumber >= 0 /\ groupnumber < Len(c.chats)
    /\ ChatAt(c, groupnumber).connection_state # "CS_NONE"

\* The first free slot, or a new last one.
get_new_group_index(c) ==
    IF \E i \in 0 .. (Len(c.chats) - 1) : ChatAt(c, i).connection_state = "CS_NONE"
    THEN [c |-> c,
          index |-> CHOOSE i \in 0 .. (Len(c.chats) - 1) :
                       /\ ChatAt(c, i).connection_state = "CS_NONE"
                       /\ \A j \in 0 .. (i - 1) : ChatAt(c, j).connection_state # "CS_NONE"]
    ELSE [c |-> [c EXCEPT !.chats = Append(@, [ZeroChat EXCEPT !.saved_invites =
                                                    memset_saved_invites(c.sizeof_invite)])],
          index |-> Len(c.chats)]

\* group_delete of the chat in slot index: the slot that its groupnumber
\* names is zeroed and the array is cut after its last chat.
group_delete_session(c, index) ==
    LET zeroed == [c.chats EXCEPT ![ChatAt(c, index).groupnumber + 1] = ZeroChat]
        used == {k \in 1 .. Len(zeroed) : zeroed[k].connection_state # "CS_NONE"}
        num_chats == IF used = {} THEN 0 ELSE CHOOSE k \in used : \A j \in used : j <= k
    IN  [c EXCEPT !.chats = SubSeq(zeroed, 1, num_chats)]

create_new_group_session(c, tcp_ok) ==
    LET new == get_new_group_index(c)
    IN  IF ~tcp_ok THEN [c |-> group_delete_session(new.c, new.index), ret |-> -1]
        ELSE [c |-> [new.c EXCEPT !.chats[new.index + 1].groupnumber = new.index,
                                  !.chats[new.index + 1].connection_state = "CS_DISCONNECTED",
                                  !.chats[new.index + 1].peers = <<[public_key |-> SelfKey, tcp_relays |-> 0]>>],
              ret |-> new.index]

\* gc_group_add of a private chat whose name and topic are taken.
gc_group_add_session(c, tcp_ok) ==
    LET made == create_new_group_session(c, tcp_ok)
    IN  IF made.ret = -1 THEN [c |-> made.c, ret |-> -4]
        ELSE [c |-> [made.c EXCEPT !.chats[made.ret + 1].chat_id = c.next_id,
                                   !.chats[made.ret + 1].connection_state = "CS_CONNECTED",
                                   !.next_id = @ + 1],
              ret |-> made.ret]

\* gc_group_exit: the chat is closing and the do_gc of the call deletes it.
gc_group_exit_session(c, groupnumber) == [c |-> group_delete_session(c, groupnumber), ret |-> 0]

gc_invite_friend_session(c, groupnumber, friendnumber, send_ok) ==
    LET gchat == ChatAt(c, groupnumber)
    IN  IF friend_not_valid(friendnumber) THEN [c |-> c, ret |-> -1]
        ELSE IF ~send_ok THEN [c |-> c, ret |-> -2]
        ELSE [c |-> [c EXCEPT !.sent = Append(@, [type |-> "GROUP_INVITE", friend_number |-> friendnumber,
                                                   chat_id |-> gchat.chat_id]),
                              !.chats[groupnumber + 1].saved_invites[gchat.saved_invites_index + 1] = friendnumber,
                              !.chats[groupnumber + 1].saved_invites_index =
                                  (gchat.saved_invites_index + 1) % MAX_GC_SAVED_INVITES],
              ret |-> 0]

\* The first entry of the ring that is the friend's number is consumed.
friend_was_invited(gchat, friend_number) ==
    IF \E k \in 1 .. MAX_GC_SAVED_INVITES : gchat.saved_invites[k] = friend_number
    THEN LET i == CHOOSE k \in 1 .. MAX_GC_SAVED_INVITES :
                     /\ gchat.saved_invites[k] = friend_number
                     /\ \A j \in 1 .. (k - 1) : gchat.saved_invites[j] # friend_number
         IN  [chat |-> [gchat EXCEPT !.saved_invites[i] = -1], ret |-> TRUE]
    ELSE [chat |-> gchat, ret |-> FALSE]

\* The slot of the first chat of the array with this chat id, -1 for NULL.
gc_get_group_by_public_key(c, chat_id) ==
    IF \E i \in 0 .. (Len(c.chats) - 1) : ChatAt(c, i).chat_id = chat_id
    THEN CHOOSE i \in 0 .. (Len(c.chats) - 1) :
            /\ ChatAt(c, i).chat_id = chat_id
            /\ \A j \in 0 .. (i - 1) : ChatAt(c, j).chat_id # chat_id
    ELSE -1

peer_add_session(c, groupnumber, public_key, tcp_ok) ==
    IF ~groupnumber_valid(c, groupnumber) THEN [c |-> c, ret |-> -1]
    ELSE IF \E k \in 1 .. Len(ChatAt(c, groupnumber).peers) : ChatAt(c, groupnumber).peers[k].public_key = public_key
    THEN [c |-> c, ret |-> -2]
    ELSE IF ~tcp_ok THEN [c |-> c, ret |-> -1]
    ELSE [c |-> [c EXCEPT !.chats[groupnumber + 1].peers = Append(@, [public_key |-> public_key, tcp_relays |-> 0])],
          ret |-> Len(ChatAt(c, groupnumber).peers)]

\* outcome says how far the handler gets after the peer is added: no
\* connection to the peer, no relay to share, relays that do not pack, a
\* packet that is not sent, or the confirmation sent.
handle_gc_invite_accepted_packet_session(c, friend_number, p, outcome) ==
    IF ~p.length_ok THEN [c |-> c, ret |-> -1]
    ELSE IF friend_not_valid(friend_number) THEN [c |-> c, ret |-> -4]
    ELSE LET index == gc_get_group_by_public_key(c, p.chat_id)
         IN  IF index = -1 THEN [c |-> c, ret |-> -2]
             ELSE LET invited == friend_was_invited(ChatAt(c, index), friend_number)
                      c1 == [c EXCEPT !.chats[index + 1] = invited.chat]
                      groupnumber == ChatAt(c, index).groupnumber
                      added == peer_add_session(c1, groupnumber, p.invite_chat_pk, outcome # "no_connection")
                      relayed == [added.c EXCEPT !.chats[groupnumber + 1].peers[added.ret + 1].tcp_relays = 1]
                  IN  IF ~invited.ret THEN [c |-> c, ret |-> -2]
                      ELSE IF added.ret < 0 THEN [c |-> c1, ret |-> -3]
                      ELSE CASE outcome = "no_relays" -> [c |-> added.c, ret |-> 0]
                             [] outcome = "pack_fails" -> [c |-> relayed, ret |-> -1]
                             [] outcome = "send_fails" -> [c |-> relayed, ret |-> -4]
                             [] OTHER ->
                                  [c |-> [relayed EXCEPT !.sent =
                                             Append(@, [type |-> "GROUP_INVITE_CONFIRMATION",
                                                        friend_number |-> friend_number, chat_id |-> p.chat_id])],
                                   ret |-> 0]

(***************************************************************************)
(* Part XVI.  Actions.                                                     *)
(***************************************************************************)
SessionCall(o, name, groupnumber, friend_number, chat_id) ==
    /\ ops < MaxInviteSteps
    /\ gc' = o.c
    /\ ret' = o.ret
    /\ call' = [name |-> name, groupnumber |-> groupnumber, friend_number |-> friend_number, chat_id |-> chat_id]
    /\ ops' = ops + 1
    /\ UNCHANGED <<tvars, chat, peers, chan, lossy, cb, group, announces, gc_announces, unix_time, packed>>

SessionGroupAdd(tcp_ok) ==
    /\ gc.next_id <= MaxChatId
    /\ \/ Len(gc.chats) < MaxChats
       \/ \E i \in 1 .. Len(gc.chats) : gc.chats[i].connection_state = "CS_NONE"
    /\ SessionCall(gc_group_add_session(gc, tcp_ok), "gc_group_add", -1, -1, 0)

SessionGroupExit(groupnumber) ==
    /\ groupnumber_valid(gc, groupnumber)
    /\ SessionCall(gc_group_exit_session(gc, groupnumber), "gc_group_exit", groupnumber, -1, 0)

InviteFriend(groupnumber, friendnumber, send_ok) ==
    /\ groupnumber_valid(gc, groupnumber)
    /\ SessionCall(gc_invite_friend_session(gc, groupnumber, friendnumber, send_ok),
                   "gc_invite_friend", groupnumber, friendnumber, 0)

InviteAcceptedPackets ==
    {[length_ok |-> TRUE, chat_id |-> chat_id, invite_chat_pk |-> k] : chat_id \in 0 .. MaxChatId, k \in {"A", "B"}}
    \cup {[length_ok |-> FALSE, chat_id |-> 1, invite_chat_pk |-> "A"]}

InviteOutcomes == {"no_connection", "no_relays", "pack_fails", "send_fails", "sent"}

HandleInviteAccepted(friend_number, p, outcome) ==
    /\ p \in InviteAcceptedPackets
    /\ SessionCall(handle_gc_invite_accepted_packet_session(gc, friend_number, p, outcome),
                   "handle_gc_invite_accepted_packet", -1, friend_number, p.chat_id)

\* new_groupchats: a session without chats.  The header with the type of an
\* element of saved_invites is not part of the sources: an element has one
\* byte or four.
InviteInit ==
    /\ TransportIdle
    /\ chat = <<>> /\ peers = <<>> /\ chan = <<>> /\ lossy = {} /\ cb = <<>>
    /\ ops = 0
    /\ group = <<>> /\ announces = <<>> /\ gc_announces = <<>> /\ unix_time = 0 /\ packed = <<>>
    /\ ret = 0
    /\ call = [name |-> "new_groupchats", groupnumber |-> -1, friend_number |-> -1, chat_id |-> 0]
    /\ \E size \in {1, 4} : gc = [chats |-> <<>>, sizeof_invite |-> size, next_id |-> 1, sent |-> <<>>]

InviteNext ==
    \/ \E tcp_ok \in BOOLEAN : SessionGroupAdd(tcp_ok)
    \/ \E groupnumber \in 0 .. MaxChats : SessionGroupExit(groupnumber)
    \/ \E groupnumber \in 0 .. MaxChats, friendnumber \in FriendNumbers, send_ok \in BOOLEAN :
          InviteFriend(groupnumber, friendnumber, send_ok)
    \/ \E friend_number \in FriendNumbers, p \in InviteAcceptedPackets, outcome \in InviteOutcomes :
          HandleInviteAccepted(friend_number, p, outcome)

SpecInvite == InviteInit /\ [][InviteNext]_vars

(***************************************************************************)
(* Part XVI.  Properties.                                                  *)
(***************************************************************************)
AcceptedStep == ops' = ops + 1 /\ call'.name = "handle_gc_invite_accepted_packet"

\* The slots of the array that have a peer more after the step.
SlotsWithNewPeer ==
    {k \in 1 .. Len(gc.chats) : k <= Len(gc'.chats) /\ Len(gc'.chats[k].peers) > Len(gc.chats[k].peers)}

\* The GROUP_INVITE packets that gc_invite_friend has sent for the chat id,
\* to the friend or to any friend.
InvitesSentTo(c, chat_id, friends) ==
    Cardinality({k \in 1 .. Len(c.sent) :
                    /\ c.sent[k].type = "GROUP_INVITE" /\ c.sent[k].chat_id = chat_id
                    /\ c.sent[k].friend_number \in friends})

\* C40: a GROUP_INVITE_ACCEPTED adds a peer to a chat only when
\* gc_invite_friend has invited the sending friend to this chat, a chat has
\* never more peers besides the own one than invites were sent for it, and
\* a friend that was not invited to the chat, friend 0 on a new or re-used
\* slot included, is not added.
C40_OnlyInvitedFriendsAdded ==
    /\ [][AcceptedStep =>
             \A k \in SlotsWithNewPeer :
                 InvitesSentTo(gc, gc.chats[k].chat_id, {call'.friend_number}) > 0]_vars
    /\ [](\A k \in 1 .. Len(gc.chats) :
             gc.chats[k].connection_state # "CS_NONE"
                 => Len(gc.chats[k].peers) - 1 <= InvitesSentTo(gc, gc.chats[k].chat_id, FriendNumbers))

====
